---- MODULE Spec2Model ----
(***************************************************************************)
(* Minter_Marketplace (smart-contracts/contracts/Marketplaces/             *)
(* MarketplaceMinter.sol): the offer / range catalog and the purchase      *)
(* settlement of the RAIR minting marketplace, as a state machine.         *)
(*                                                                         *)
(* Solidity arrays are 0-based; the sequences below are 1-based, so        *)
(* element i of an array a is a[i + 1] (see At).  Each operation has a     *)
(* ...Result operator giving the outcome of a call in the current state:   *)
(* "ok" or the name of the first check that fails, in the order the code   *)
(* makes its checks; a call that reverts changes nothing.  buyToken hands  *)
(* control to the external collection in its mint call (line 327); the     *)
(* model stops there (a frame on `stack`) so that a purchase re-entered    *)
(* from inside the mint call runs against the state buyToken has written   *)
(* so far.  lastOp, lastResult and events describe the last call that      *)
(* went through and the log of the transaction it belongs to.              *)
(***************************************************************************)
EXTENDS Integers, Sequences, FiniteSets, TLC

\* ------------------------------------------------------------------ bounds
MaxToken == 2
MaxRanges == 2
MaxBatch == 2
MaxOffers == 2
\* the most purchases waiting in their mint call at once
MaxDepth == 2
\* the most calls that the collections' mint functions make back into the
\* marketplace, and that go through, in one transaction
MaxCallbacks == 2

\* ------------------------------------------------------- program constants
DENOM == 100000
UINT16_MAX == 65535

\* ------------------------------------------------------------------ inputs
ZeroAddr == "0x0"
Market == "market"
Collections == {"c1", "c2"}
TokenAddressInputs == Collections \cup {ZeroAddr}
Buyers == {"b1"}
NodeInputs == {"n1"}
TreasuryInputs == {"t1"}
ReceiverInputs == {"r1"}
Accounts == {Market, ZeroAddr} \cup Buyers \cup NodeInputs \cup TreasuryInputs \cup ReceiverInputs
ProductInputs == {0}
Tokens == 0 .. MaxToken
Prices == {3, 100}
Names == {"a", "b"}
Payments == {2, 3, 100}
\* the (treasuryFee, nodeFee) pair given to initialize: the recommended 9% and
\* 1% (SplitSpec has more)
FeeInputs == {<<9000, 1000>>}
InitialFunds == 1000

\* start/end pairs offered to the listing operations: every well-formed pair
\* over Tokens, one pair with equal bounds and one with inverted bounds
BoundInputs == {b \in Tokens \X Tokens : b[1] < b[2]} \cup {<<1, 1>>, <<1, 0>>}

\* the (price, name) pair offered to the operations that create or update
\* ranges, and the pairs offered where ranges are relabelled (RelabelSpec,
\* SplitSpec)
LabelInputs == {<<3, "a">>}
RelabelInputs == {<<3, "a">>, <<100, "b">>}

RangeInputs == {[start |-> b[1], end |-> b[2], price |-> l[1], name |-> l[2]] :
                  b \in BoundInputs, l \in LabelInputs}

\* the batches given to addOffer and appendOfferRangeBatch: none, one range,
\* or two ranges
BatchInputs ==
  {<<>>} \cup {<<r>> : r \in RangeInputs} \cup
  {<<r1, r2>> : r1 \in RangeInputs, r2 \in {r \in RangeInputs : MaxBatch >= 2}}

SampleRange == [start |-> 0, end |-> 1, price |-> 3, name |-> "a"]

\* the answers of the collection's access control to the two hasRole queries
AllRoles == [minter |-> TRUE, creator |-> TRUE]
RoleInputs == {AllRoles,
               [minter |-> FALSE, creator |-> TRUE],
               [minter |-> TRUE, creator |-> FALSE],
               [minter |-> FALSE, creator |-> FALSE]}

\* which of the four calldata arrays, if any, is one element shorter
ShortInputs == {"none", "start", "end", "price", "name"}

\* a collection's answer to supportsInterface(IERC2981) and to royaltyInfo:
\* the first collection implements the royalty interface, the second does not
RoyaltyCollections == {"c1"}
NoRoyalty == [supports |-> FALSE, receiver |-> ZeroAddr, amount |-> 0]
RoyaltyInputs(collection) ==
  IF collection \in RoyaltyCollections
  THEN {[supports |-> TRUE, receiver |-> r, amount |-> 5] : r \in ReceiverInputs}
  ELSE {NoRoyalty}

\* the recipient, if any, whose receive hook rejects the transfer
RejectInputs == {"none", "creator", "refund", "treasury", "node"}

VARIABLES offerCatalog, contractToOffer, openSales, treasury, treasuryFee,
          nodeFee, initialized, balances, minted, events, stack, lastOp, lastResult

vars == <<offerCatalog, contractToOffer, openSales, treasury, treasuryFee,
          nodeFee, initialized, balances, minted, events, stack, lastOp, lastResult>>

\* the contract's own storage
catalogVars == <<offerCatalog, contractToOffer, openSales>>
configVars == <<treasury, treasuryFee, nodeFee, initialized>>

\* ----------------------------------------------------------------- helpers
At(a, i) == a[i + 1]

Front(s) == SubSeq(s, 1, Len(s) - 1)

\* the four calldata arrays of a batch, the one named by `short` losing its
\* last element
Column(batch, field, short) ==
  LET full == [i \in 1 .. Len(batch) |-> batch[i][field]]
  IN IF short = field /\ Len(batch) > 0 THEN Front(full) ELSE full

emptyOffer == [contractAddress |-> ZeroAddr, nodeAddress |-> ZeroAddr, productIndex |-> 0,
               tokenRangeStart |-> <<>>, tokenRangeEnd |-> <<>>, tokensAllowed |-> <<>>,
               rangePrice |-> <<>>, rangeName |-> <<>>]

Event(name, args) == [name |-> name, args |-> args]

\* the log of the transaction in progress: a top-level call starts a new one
TxEvents == IF stack = <<>> THEN <<>> ELSE events

\* a call that reverts with `err`: the error goes back to the caller and no
\* storage, balance or log entry is written
Revert(op, err) == UNCHANGED vars

\* The contract has no re-entrancy guard: while buyToken waits in the mint
\* call of line 327 the collection, which is code of the caller's choosing,
\* can call any function of the marketplace, any number of times.  The
\* calls it makes are inputs of the model, as the arguments of a call are.
\* Each frame counts in `calls` the calls that went through from inside its
\* mint call; a purchase in progress inside another is one more.
RECURSIVE callbacksOf(_)
callbacksOf(stk) ==
  IF stk = <<>> THEN 0
  ELSE stk[Len(stk)].calls + (IF Len(stk) > 1 THEN 1 ELSE 0) + callbacksOf(Front(stk))

\* the stack after a call that went through: inside a mint call it is one
\* more call-back of that mint call
called(stk) == IF stk = <<>> THEN stk ELSE [stk EXCEPT ![Len(stk)].calls = @ + 1]

\* the bounds of the exploration (no check of the contract): a transaction is
\* followed through MaxCallbacks call-backs, whatever they are and whatever
\* they log, and through MaxDepth purchases nested in one another
callbackInBounds == callbacksOf(stack) < MaxCallbacks
depthInBounds == Len(stack) < MaxDepth

\* ------------------------------------------------------------- deployment
\* the contract has no constructor: its storage starts zeroed, and initialize
\* is an ordinary public function that has not been called yet
deploy ==
  /\ offerCatalog = <<>>
  /\ contractToOffer = [a \in TokenAddressInputs |-> 0]
  /\ openSales = 0
  /\ treasury = ZeroAddr
  /\ treasuryFee = 0
  /\ nodeFee = 0
  /\ initialized = FALSE
  /\ balances = [a \in Accounts |-> IF a \in Buyers THEN InitialFunds ELSE 0]
  /\ minted = {}
  /\ events = <<>>
  /\ stack = <<>>
  /\ lastOp = "deploy"
  /\ lastResult = "ok"

Init == deploy

\* ------------------------------------------------------------- initialize
\* the modifier initializer lets the function run once
initializeResult == IF initialized THEN "AlreadyInitialized" ELSE "ok"

\* lines 60-65: callable by anyone, before or after other calls, also from
\* inside a mint call; it writes openSales whatever the catalog holds
initializeCall(newTreasury, newTreasuryFee, newNodeFee) ==
  IF initializeResult # "ok" THEN Revert("initialize", initializeResult)
  ELSE /\ treasury' = newTreasury
       /\ treasuryFee' = newTreasuryFee
       /\ nodeFee' = newNodeFee
       /\ openSales' = 0
       /\ initialized' = TRUE
       /\ events' = TxEvents
       /\ lastOp' = "initialize"
       /\ lastResult' = "ok"
       /\ UNCHANGED <<offerCatalog, contractToOffer, balances, minted>>
       /\ stack' = called(stack)

initialize ==
  /\ callbackInBounds
  /\ \E newTreasury \in TreasuryInputs, fees \in FeeInputs :
    initializeCall(newTreasury, fees[1], fees[2])

\* ------------------------------------------------------ onlyOwner setters
\* initialize is the only initializer and does not call __Ownable_init: the
\* owner of OwnableUpgradeable keeps its default, the zero address
owner == ZeroAddr
Deployer == "d1"
\* msg.sender of a setter call: the deployer, a buyer, the treasury
SenderInputs == {Deployer} \cup Buyers \cup TreasuryInputs
NewTreasuryInputs == TreasuryInputs \cup Buyers
NewFeeInputs == {0, 9000}

\* the modifier onlyOwner
onlyOwner(sender) == IF sender = owner THEN "ok" ELSE "CallerIsNotOwner"

setTreasuryAddressCall(sender, newTreasury) ==
  IF onlyOwner(sender) # "ok" THEN Revert("setTreasuryAddress", onlyOwner(sender))
  ELSE /\ treasury' = newTreasury
       /\ events' = TxEvents \o <<Event("ChangedTreasury", <<newTreasury>>)>>
       /\ lastOp' = "setTreasuryAddress"
       /\ lastResult' = "ok"
       /\ UNCHANGED <<catalogVars, treasuryFee, nodeFee, initialized, balances, minted>>
       /\ stack' = called(stack)

setTreasuryAddress ==
  /\ callbackInBounds
  /\ \/ \E sender \in SenderInputs, newTreasury \in NewTreasuryInputs :
          /\ onlyOwner(sender) = "ok"
          /\ setTreasuryAddressCall(sender, newTreasury)
     \/ /\ ~(\A sender \in SenderInputs : onlyOwner(sender) = "ok")
        /\ Revert("setTreasuryAddress", "refused")

setTreasuryFeeCall(sender, newFee) ==
  IF onlyOwner(sender) # "ok" THEN Revert("setTreasuryFee", onlyOwner(sender))
  ELSE /\ treasuryFee' = newFee
       /\ events' = TxEvents \o <<Event("ChangedTreasuryFee", <<treasury, newFee>>)>>
       /\ lastOp' = "setTreasuryFee"
       /\ lastResult' = "ok"
       /\ UNCHANGED <<catalogVars, treasury, nodeFee, initialized, balances, minted>>
       /\ stack' = called(stack)

setTreasuryFee ==
  /\ callbackInBounds
  /\ \/ \E sender \in SenderInputs, newFee \in NewFeeInputs :
          /\ onlyOwner(sender) = "ok"
          /\ setTreasuryFeeCall(sender, newFee)
     \/ /\ ~(\A sender \in SenderInputs : onlyOwner(sender) = "ok")
        /\ Revert("setTreasuryFee", "refused")

setNodeFeeCall(sender, newFee) ==
  IF onlyOwner(sender) # "ok" THEN Revert("setNodeFee", onlyOwner(sender))
  ELSE /\ nodeFee' = newFee
       /\ events' = TxEvents \o <<Event("ChangedNodeFee", <<newFee>>)>>
       /\ lastOp' = "setNodeFee"
       /\ lastResult' = "ok"
       /\ UNCHANGED <<catalogVars, treasury, treasuryFee, initialized, balances, minted>>
       /\ stack' = called(stack)

setNodeFee ==
  /\ callbackInBounds
  /\ \/ \E sender \in SenderInputs, newFee \in NewFeeInputs :
          /\ onlyOwner(sender) = "ok"
          /\ setNodeFeeCall(sender, newFee)
     \/ /\ ~(\A sender \in SenderInputs : onlyOwner(sender) = "ok")
        /\ Revert("setNodeFee", "refused")

\* ----------------------------------------------------------- validations
\* (mutant) a pair with equal bounds is let through
_validateRangeInfoAllowsEqual(start, end) == start <= end

\* lines 134-136
_validateRangeInfo(start, end) == start < end

\* (mutant) only the MINTER role of the marketplace is checked
validateRolesMinterOnly(tokenAddress, roles) ==
  IF tokenAddress = ZeroAddr THEN "CollaboratorError"
  ELSE IF ~roles.minter THEN "NotAuthorizedAsMinter"
  ELSE "ok"

validateRoles(tokenAddress, roles) ==
  IF tokenAddress = ZeroAddr THEN "CollaboratorError"
  ELSE IF ~roles.minter THEN "NotAuthorizedAsMinter"
  ELSE IF ~roles.creator THEN "NotAuthorizedAsCreator"
  ELSE "ok"

sameLengths(starts, ends, prices, names) ==
  /\ Len(starts) = Len(ends)
  /\ Len(prices) = Len(starts)
  /\ Len(names) = Len(prices)

\* ------------------------------------------------------ _appendOfferRange
\* (mutant) the supply of a new range is the difference of its bounds
_appendOfferRangeWidthLessOne(catalog, offerIndex, startToken, endToken, price, name) ==
  LET o == At(catalog, offerIndex)
  IN [catalog EXCEPT ![offerIndex + 1] =
        [o EXCEPT !.tokenRangeStart = Append(@, startToken),
                  !.tokenRangeEnd = Append(@, endToken),
                  !.rangePrice = Append(@, price),
                  !.tokensAllowed = Append(@, endToken - startToken),
                  !.rangeName = Append(@, name)]]

_appendOfferRange(catalog, offerIndex, startToken, endToken, price, name) ==
  LET o == At(catalog, offerIndex)
  IN [catalog EXCEPT ![offerIndex + 1] =
        [o EXCEPT !.tokenRangeStart = Append(@, startToken),
                  !.tokenRangeEnd = Append(@, endToken),
                  !.rangePrice = Append(@, price),
                  !.tokensAllowed = Append(@, (endToken - startToken) + 1),
                  !.rangeName = Append(@, name)]]

AppendedRange(catalog, offerIndex, startToken, endToken, price, name) ==
  LET o == At(catalog, offerIndex)
  IN Event("AppendedRange", <<o.contractAddress, o.productIndex, offerIndex,
                              Len(o.rangeName), startToken, endToken, price, name>>)

\* the loop of addOffer and appendOfferRangeBatch over a batch whose pairs
\* have all passed _validateRangeInfo
RECURSIVE appendAll(_, _, _)
appendAll(catalog, offerIndex, batch) ==
  IF batch = <<>> THEN catalog
  ELSE LET r == Head(batch)
       IN appendAll(_appendOfferRange(catalog, offerIndex, r.start, r.end, r.price, r.name),
                    offerIndex, Tail(batch))

RECURSIVE appendAllEvents(_, _, _)
appendAllEvents(catalog, offerIndex, batch) ==
  IF batch = <<>> THEN <<>>
  ELSE LET r == Head(batch)
       IN <<AppendedRange(catalog, offerIndex, r.start, r.end, r.price, r.name)>> \o
          appendAllEvents(_appendOfferRange(catalog, offerIndex, r.start, r.end, r.price, r.name),
                          offerIndex, Tail(batch))

\* -------------------------------------------------------- contractToOffer
\* (mutant) the view answers from the mapping without comparing the address
contractToOfferViewUnchecked(erc721Address) ==
  IF ~(Len(offerCatalog) > 0)
  THEN [result |-> "NoOfferForCollection", offerIndex |-> 0]
  ELSE [result |-> "ok", offerIndex |-> contractToOffer[erc721Address]]

\* the view function contractToOffer of lines 48-53
contractToOfferView(erc721Address) ==
  IF ~(Len(offerCatalog) > 0 /\
       At(offerCatalog, contractToOffer[erc721Address]).contractAddress = erc721Address)
  THEN [result |-> "NoOfferForCollection", offerIndex |-> 0]
  ELSE [result |-> "ok", offerIndex |-> contractToOffer[erc721Address]]

\* --------------------------------------------------------------- addOffer
\* (mutant) the uniqueness check left out
offerExistsUnchecked(tokenAddress) == FALSE

\* the uniqueness check of lines 198-200
offerExists(tokenAddress) ==
  /\ Len(offerCatalog) # 0
  /\ At(offerCatalog, contractToOffer[tokenAddress]).contractAddress # ZeroAddr

addOfferGuard(tokenAddress, roles) ==
  IF validateRoles(tokenAddress, roles) # "ok" THEN validateRoles(tokenAddress, roles)
  ELSE IF offerExists(tokenAddress) THEN "OfferAlreadyExists"
  ELSE "ok"

addOfferResult(tokenAddress, roles, batch, short, mintableTokensLeft) ==
  IF addOfferGuard(tokenAddress, roles) # "ok" THEN addOfferGuard(tokenAddress, roles)
  ELSE IF ~sameLengths(Column(batch, "start", short), Column(batch, "end", short),
                       Column(batch, "price", short), Column(batch, "name", short))
    THEN "RangeLengthMismatch"
  ELSE IF ~(mintableTokensLeft > 0) THEN "NoMintableSupply"
  ELSE IF \E i \in 1 .. Len(batch) : ~_validateRangeInfo(batch[i].start, batch[i].end)
    THEN "InvalidRangeBounds"
  ELSE "ok"

addOfferCatalog(tokenAddress, productIndex, batch, nodeAddress) ==
  LET pushed == Append(offerCatalog,
                       [emptyOffer EXCEPT !.contractAddress = tokenAddress,
                                          !.nodeAddress = nodeAddress,
                                          !.productIndex = productIndex])
  IN appendAll(pushed, Len(pushed) - 1, batch)

addOfferEvents(tokenAddress, productIndex, batch, nodeAddress) ==
  LET pushed == Append(offerCatalog,
                       [emptyOffer EXCEPT !.contractAddress = tokenAddress,
                                          !.nodeAddress = nodeAddress,
                                          !.productIndex = productIndex])
  IN appendAllEvents(pushed, Len(pushed) - 1, batch) \o
     <<Event("AddedOffer", <<tokenAddress, productIndex, Len(batch), Len(pushed) - 1>>)>>

addOfferCall(tokenAddress, productIndex, roles, batch, short, mintableTokensLeft, nodeAddress) ==
  LET res == addOfferResult(tokenAddress, roles, batch, short, mintableTokensLeft)
  IN IF res # "ok" THEN Revert("addOffer", res)
     ELSE /\ Len(offerCatalog) < MaxOffers
          /\ offerCatalog' = addOfferCatalog(tokenAddress, productIndex, batch, nodeAddress)
          /\ contractToOffer' = [contractToOffer EXCEPT ![tokenAddress] = Len(offerCatalog)]
          /\ openSales' = openSales + Len(batch)
          /\ events' = TxEvents \o addOfferEvents(tokenAddress, productIndex, batch, nodeAddress)
          /\ lastOp' = "addOffer"
          /\ lastResult' = "ok"
          /\ UNCHANGED <<configVars, balances, minted>>
          /\ stack' = called(stack)

\* a call that goes through, or one that is refused: whatever its arguments,
\* a refused call leaves the state as it is
addOffer ==
  /\ callbackInBounds
  /\ \/ \E tokenAddress \in TokenAddressInputs, roles \in RoleInputs :
          /\ addOfferGuard(tokenAddress, roles) = "ok"
          /\ \E batch \in BatchInputs, short \in ShortInputs, mintableTokensLeft \in {0, 1},
                productIndex \in ProductInputs, nodeAddress \in NodeInputs :
               /\ addOfferResult(tokenAddress, roles, batch, short, mintableTokensLeft) = "ok"
               /\ addOfferCall(tokenAddress, productIndex, roles, batch, short,
                               mintableTokensLeft, nodeAddress)
     \/ /\ ~(\A tokenAddress \in TokenAddressInputs, roles \in RoleInputs,
               batch \in BatchInputs, short \in ShortInputs, mintableTokensLeft \in {0, 1} :
               addOfferResult(tokenAddress, roles, batch, short, mintableTokensLeft) = "ok")
        /\ Revert("addOffer", "refused")

\* ------------------------------------------------------- appendOfferRange
OfferIndexInputs == 0 .. MaxOffers - 1
RangeIndexInputs == 0 .. MaxRanges

appendOfferRangeResult(offerIndex, roles, startToken, endToken) ==
  IF ~(offerIndex < Len(offerCatalog)) THEN "IndexOutOfBounds"
  ELSE IF validateRoles(At(offerCatalog, offerIndex).contractAddress, roles) # "ok"
    THEN validateRoles(At(offerCatalog, offerIndex).contractAddress, roles)
  ELSE IF ~_validateRangeInfo(startToken, endToken) THEN "InvalidRangeBounds"
  ELSE "ok"

appendOfferRangeCall(offerIndex, roles, startToken, endToken, price, name) ==
  LET res == appendOfferRangeResult(offerIndex, roles, startToken, endToken)
  IN IF res # "ok" THEN Revert("appendOfferRange", res)
     ELSE /\ Len(At(offerCatalog, offerIndex).rangeName) < MaxRanges
          /\ offerCatalog' = _appendOfferRange(offerCatalog, offerIndex, startToken,
                                               endToken, price, name)
          /\ openSales' = openSales + 1
          /\ events' = TxEvents \o <<AppendedRange(offerCatalog, offerIndex, startToken,
                                                   endToken, price, name)>>
          /\ lastOp' = "appendOfferRange"
          /\ lastResult' = "ok"
          /\ UNCHANGED <<contractToOffer, configVars, balances, minted>>
          /\ stack' = called(stack)

appendOfferRange ==
  /\ callbackInBounds
  /\ \/ \E offerIndex \in OfferIndexInputs, roles \in RoleInputs, r \in RangeInputs :
          /\ appendOfferRangeResult(offerIndex, roles, r.start, r.end) = "ok"
          /\ appendOfferRangeCall(offerIndex, roles, r.start, r.end, r.price, r.name)
     \/ /\ ~(\A offerIndex \in OfferIndexInputs, roles \in RoleInputs, r \in RangeInputs :
               appendOfferRangeResult(offerIndex, roles, r.start, r.end) = "ok")
        /\ Revert("appendOfferRange", "refused")

\* -------------------------------------------------- appendOfferRangeBatch
appendOfferRangeBatchGuard(offerIndex, roles, mismatch) ==
  IF mismatch THEN "RangeLengthMismatch"
  ELSE IF ~(offerIndex < Len(offerCatalog)) THEN "IndexOutOfBounds"
  ELSE validateRoles(At(offerCatalog, offerIndex).contractAddress, roles)

appendOfferRangeBatchResult(offerIndex, roles, batch, short) ==
  LET guard == appendOfferRangeBatchGuard(offerIndex, roles,
                 ~sameLengths(Column(batch, "start", short), Column(batch, "end", short),
                              Column(batch, "price", short), Column(batch, "name", short)))
  IN IF guard # "ok" THEN guard
     ELSE IF \E i \in 1 .. Len(batch) : ~_validateRangeInfo(batch[i].start, batch[i].end)
       THEN "InvalidRangeBounds"
     ELSE "ok"

appendOfferRangeBatchCall(offerIndex, roles, batch, short) ==
  LET res == appendOfferRangeBatchResult(offerIndex, roles, batch, short)
  IN IF res # "ok" THEN Revert("appendOfferRangeBatch", res)
     ELSE /\ Len(At(offerCatalog, offerIndex).rangeName) + Len(batch) <= MaxRanges
          /\ offerCatalog' = appendAll(offerCatalog, offerIndex, batch)
          /\ openSales' = openSales + Len(batch)
          /\ events' = TxEvents \o appendAllEvents(offerCatalog, offerIndex, batch)
          /\ lastOp' = "appendOfferRangeBatch"
          /\ lastResult' = "ok"
          /\ UNCHANGED <<contractToOffer, configVars, balances, minted>>
          /\ stack' = called(stack)

\* the calldata that passes the require of lines 275-277: the four arrays
\* are of one length
AlignedBatchInputs ==
  {c \in BatchInputs \X ShortInputs :
     sameLengths(Column(c[1], "start", c[2]), Column(c[1], "end", c[2]),
                 Column(c[1], "price", c[2]), Column(c[1], "name", c[2]))}

appendOfferRangeBatch ==
  /\ callbackInBounds
  /\ \/ \E offerIndex \in OfferIndexInputs, roles \in RoleInputs :
          /\ appendOfferRangeBatchGuard(offerIndex, roles, FALSE) = "ok"
          /\ \E c \in AlignedBatchInputs :
               /\ appendOfferRangeBatchResult(offerIndex, roles, c[1], c[2]) = "ok"
               /\ appendOfferRangeBatchCall(offerIndex, roles, c[1], c[2])
     \/ /\ ~(\A offerIndex \in OfferIndexInputs, roles \in RoleInputs,
               batch \in BatchInputs, short \in ShortInputs :
               appendOfferRangeBatchResult(offerIndex, roles, batch, short) = "ok")
        /\ Revert("appendOfferRangeBatch", "refused")

\* ------------------------------------------------------- updateOfferRange
\* (mutant) only the end of the range is held to its previous limit
withinPreviousLimitsEndOnly(o, rangeIndex, startToken, endToken) ==
  endToken <= At(o.tokenRangeEnd, rangeIndex)

\* the require of lines 237-239
withinPreviousLimits(o, rangeIndex, startToken, endToken) ==
  /\ endToken <= At(o.tokenRangeEnd, rangeIndex)
  /\ startToken >= At(o.tokenRangeStart, rangeIndex)

updateOfferRangeResult(offerIndex, rangeIndex, roles, startToken, endToken) ==
  IF ~(offerIndex < Len(offerCatalog)) THEN "IndexOutOfBounds"
  ELSE LET o == At(offerCatalog, offerIndex)
       IN IF ~(rangeIndex < Len(o.tokenRangeEnd)) THEN "IndexOutOfBounds"
          ELSE IF ~withinPreviousLimits(o, rangeIndex, startToken, endToken)
            THEN "RangeExpansionNotAllowed"
          ELSE IF validateRoles(o.contractAddress, roles) # "ok"
            THEN validateRoles(o.contractAddress, roles)
          ELSE IF ~_validateRangeInfo(startToken, endToken) THEN "InvalidRangeBounds"
          ELSE IF (At(o.tokenRangeEnd, rangeIndex) - At(o.tokenRangeStart, rangeIndex))
                    < (endToken - startToken)
            THEN "ArithmeticPanic"
          ELSE IF At(o.tokensAllowed, rangeIndex) <
                  (At(o.tokenRangeEnd, rangeIndex) - At(o.tokenRangeStart, rangeIndex))
                    - (endToken - startToken)
            THEN "ArithmeticPanic"
          ELSE "ok"

\* (mutant) the supply is set to the width of the new bounds
updateOfferRangeCatalogResetsSupply(offerIndex, rangeIndex, startToken, endToken, price, name) ==
  LET o == At(offerCatalog, offerIndex)
      r == rangeIndex + 1
  IN [offerCatalog EXCEPT ![offerIndex + 1] =
        [o EXCEPT !.tokensAllowed[r] = (endToken - startToken) + 1,
                  !.tokenRangeStart[r] = startToken,
                  !.tokenRangeEnd[r] = endToken,
                  !.rangePrice[r] = price,
                  !.rangeName[r] = name]]

updateOfferRangeCatalog(offerIndex, rangeIndex, startToken, endToken, price, name) ==
  LET o == At(offerCatalog, offerIndex)
      r == rangeIndex + 1
  IN [offerCatalog EXCEPT ![offerIndex + 1] =
        [o EXCEPT !.tokensAllowed[r] =
                    @ - ((o.tokenRangeEnd[r] - o.tokenRangeStart[r]) - (endToken - startToken)),
                  !.tokenRangeStart[r] = startToken,
                  !.tokenRangeEnd[r] = endToken,
                  !.rangePrice[r] = price,
                  !.rangeName[r] = name]]

\* (mutant) UpdatedOffer carries the supply read before line 242
updateOfferRangeCallEmitsOldSupply(offerIndex, rangeIndex, roles, startToken, endToken, price, name) ==
  LET res == updateOfferRangeResult(offerIndex, rangeIndex, roles, startToken, endToken)
      after == updateOfferRangeCatalog(offerIndex, rangeIndex, startToken, endToken, price, name)
  IN IF res # "ok" THEN Revert("updateOfferRange", res)
     ELSE /\ offerCatalog' = after
          /\ events' = TxEvents \o
               <<Event("UpdatedOffer",
                       <<At(offerCatalog, offerIndex).contractAddress, offerIndex, rangeIndex,
                         At(At(offerCatalog, offerIndex).tokensAllowed, rangeIndex), price, name>>)>>
          /\ lastOp' = "updateOfferRange"
          /\ lastResult' = "ok"
          /\ UNCHANGED <<contractToOffer, openSales, configVars, balances, minted>>
          /\ stack' = called(stack)

updateOfferRangeCall(offerIndex, rangeIndex, roles, startToken, endToken, price, name) ==
  LET res == updateOfferRangeResult(offerIndex, rangeIndex, roles, startToken, endToken)
      after == updateOfferRangeCatalog(offerIndex, rangeIndex, startToken, endToken, price, name)
  IN IF res # "ok" THEN Revert("updateOfferRange", res)
     ELSE /\ offerCatalog' = after
          /\ events' = TxEvents \o
               <<Event("UpdatedOffer",
                       <<At(offerCatalog, offerIndex).contractAddress, offerIndex, rangeIndex,
                         At(At(after, offerIndex).tokensAllowed, rangeIndex), price, name>>)>>
          /\ lastOp' = "updateOfferRange"
          /\ lastResult' = "ok"
          /\ UNCHANGED <<contractToOffer, openSales, configVars, balances, minted>>
          /\ stack' = called(stack)

updateOfferRange ==
  /\ callbackInBounds
  /\ \/ \E offerIndex \in OfferIndexInputs, rangeIndex \in RangeIndexInputs,
            b \in BoundInputs, roles \in RoleInputs :
          /\ updateOfferRangeResult(offerIndex, rangeIndex, roles, b[1], b[2]) = "ok"
          /\ \E l \in LabelInputs :
               updateOfferRangeCall(offerIndex, rangeIndex, roles, b[1], b[2], l[1], l[2])
     \/ /\ ~(\A offerIndex \in OfferIndexInputs, rangeIndex \in RangeIndexInputs,
               b \in BoundInputs, roles \in RoleInputs :
               updateOfferRangeResult(offerIndex, rangeIndex, roles, b[1], b[2]) = "ok")
        /\ Revert("updateOfferRange", "refused")

\* --------------------------------------------------------------- buyToken
\* (mutant) the requires of lines 300-307 without the supply check of line 303
buyTokenValidationNoSupplyCheck(catalogIndex, rangeIndex, internalTokenIndex, value) ==
  IF ~(catalogIndex < Len(offerCatalog)) THEN "IndexOutOfBounds"
  ELSE LET o == At(offerCatalog, catalogIndex)
       IN IF o.contractAddress = ZeroAddr THEN "InvalidOffer"
          ELSE IF ~(Len(o.tokensAllowed) > rangeIndex) THEN "InvalidRange"
          ELSE IF ~(At(o.tokenRangeStart, rangeIndex) <= internalTokenIndex /\
                    internalTokenIndex <= At(o.tokenRangeEnd, rangeIndex))
            THEN "TokenOutsideRange"
          ELSE IF ~(value >= At(o.rangePrice, rangeIndex)) THEN "InsufficientFunds"
          ELSE "ok"

\* (mutant) the requires of lines 300-307 with the end of the range excluded
buyTokenValidationExclusiveEnd(catalogIndex, rangeIndex, internalTokenIndex, value) ==
  IF ~(catalogIndex < Len(offerCatalog)) THEN "IndexOutOfBounds"
  ELSE LET o == At(offerCatalog, catalogIndex)
       IN IF o.contractAddress = ZeroAddr THEN "InvalidOffer"
          ELSE IF ~(Len(o.tokensAllowed) > rangeIndex) THEN "InvalidRange"
          ELSE IF ~(At(o.tokensAllowed, rangeIndex) > 0) THEN "RangeSoldOut"
          ELSE IF ~(At(o.tokenRangeStart, rangeIndex) <= internalTokenIndex /\
                    internalTokenIndex < At(o.tokenRangeEnd, rangeIndex))
            THEN "TokenOutsideRange"
          ELSE IF ~(value >= At(o.rangePrice, rangeIndex)) THEN "InsufficientFunds"
          ELSE "ok"

\* the requires of lines 300-307, in order
buyTokenValidation(catalogIndex, rangeIndex, internalTokenIndex, value) ==
  IF ~(catalogIndex < Len(offerCatalog)) THEN "IndexOutOfBounds"
  ELSE LET o == At(offerCatalog, catalogIndex)
       IN IF o.contractAddress = ZeroAddr THEN "InvalidOffer"
          ELSE IF ~(Len(o.tokensAllowed) > rangeIndex) THEN "InvalidRange"
          ELSE IF ~(At(o.tokensAllowed, rangeIndex) > 0) THEN "RangeSoldOut"
          ELSE IF ~(At(o.tokenRangeStart, rangeIndex) <= internalTokenIndex /\
                    internalTokenIndex <= At(o.tokenRangeEnd, rangeIndex))
            THEN "TokenOutsideRange"
          ELSE IF ~(value >= At(o.rangePrice, rangeIndex)) THEN "InsufficientFunds"
          ELSE "ok"

\* treasuryFee + nodeFee is a uint16 addition: it reverts past 65535
feeSumOverflows == treasuryFee + nodeFee > UINT16_MAX

\* (mutant) the creator's share computed without the node fee
creatorAmountSkipsNodeFee(price) == (price * (DENOM - treasuryFee)) \div DENOM

\* (mutant) the creator is sent the whole price
creatorAmountWholePrice(price) == price

\* line 316
creatorAmount(price) == (price * (DENOM - (treasuryFee + nodeFee))) \div DENOM
treasuryAmount(price) == (price * treasuryFee) \div DENOM
nodeAmount(price) == (price * nodeFee) \div DENOM
refundAmount(price, value) == value - price

\* (mutant) the receiver is paid the amount royaltyInfo returned
paymentsRoyaltyAmount(sender, nodeAddress, price, value, royalty) ==
  (IF royalty.supports
   THEN <<[to |-> royalty.receiver, amount |-> royalty.amount, kind |-> "creator"]>>
   ELSE <<>>) \o
  <<[to |-> sender, amount |-> value - price, kind |-> "refund"],
    [to |-> treasury, amount |-> (price * treasuryFee) \div DENOM, kind |-> "treasury"],
    [to |-> nodeAddress, amount |-> (price * nodeFee) \div DENOM, kind |-> "node"]>>

\* the transfers of lines 314-321, in the order they are made
payments(sender, nodeAddress, price, value, royalty) ==
  (IF royalty.supports
   THEN <<[to |-> royalty.receiver, amount |-> creatorAmount(price), kind |-> "creator"]>>
   ELSE <<>>) \o
  <<[to |-> sender, amount |-> refundAmount(price, value), kind |-> "refund"],
    [to |-> treasury, amount |-> treasuryAmount(price), kind |-> "treasury"],
    [to |-> nodeAddress, amount |-> nodeAmount(price), kind |-> "node"]>>

\* (mutant) a transfer the recipient rejects is not noticed
transferFailsUnchecked(bal, pay, reject) == bal[Market] < pay.amount

\* address.transfer: reverts when the contract holds less than the amount or
\* when the recipient rejects it; the zero address has no code to reject with
transferFails(bal, pay, reject) ==
  bal[Market] < pay.amount \/ (reject = pay.kind /\ pay.to # ZeroAddr)

transfer(bal, pay) ==
  [[bal EXCEPT ![Market] = @ - pay.amount] EXCEPT ![pay.to] = @ + pay.amount]

RECURSIVE transferAll(_, _, _)
transferAll(bal, pays, reject) ==
  IF pays = <<>> THEN [ok |-> TRUE, balances |-> bal]
  ELSE IF transferFails(bal, Head(pays), reject) THEN [ok |-> FALSE, balances |-> bal]
  ELSE transferAll(transfer(bal, Head(pays)), Tail(pays), reject)

\* msg.value is credited to the contract before the body of buyToken runs
received(sender, value) ==
  [[balances EXCEPT ![sender] = @ - value] EXCEPT ![Market] = @ + value]

\* (mutant) the supply taken is that of the first range of the offer
buyTokenCatalogFirstRange(catalogIndex, rangeIndex) ==
  [offerCatalog EXCEPT ![catalogIndex + 1].tokensAllowed[1] = @ - 1]

\* (mutant) the supply is not written before the mint call
buyTokenCatalogNoDecrement(catalogIndex, rangeIndex) == offerCatalog

\* (mutant) the supply of every range of the offer is decremented
buyTokenCatalogEveryRange(catalogIndex, rangeIndex) ==
  [offerCatalog EXCEPT ![catalogIndex + 1].tokensAllowed =
     [r \in DOMAIN @ |-> @[r] - 1]]

\* lines 322-326: the supply written before the mint call
buyTokenCatalog(catalogIndex, rangeIndex) ==
  [offerCatalog EXCEPT ![catalogIndex + 1].tokensAllowed[rangeIndex + 1] = @ - 1]

\* (mutant) a range is never found sold out
buyTokenSoldOutNever(catalogIndex, rangeIndex) == FALSE

\* line 323: the supply just written is 0
buyTokenSoldOut(catalogIndex, rangeIndex) ==
  At(At(buyTokenCatalog(catalogIndex, rangeIndex), catalogIndex).tokensAllowed, rangeIndex) = 0

buyTokenOpenSales(catalogIndex, rangeIndex) ==
  IF buyTokenSoldOut(catalogIndex, rangeIndex) THEN openSales - 1 ELSE openSales

\* everything up to the mint call of line 327
buyTokenResult(sender, catalogIndex, rangeIndex, internalTokenIndex, value, royalty, reject) ==
  LET valid == buyTokenValidation(catalogIndex, rangeIndex, internalTokenIndex, value)
      o == At(offerCatalog, catalogIndex)
      price == At(o.rangePrice, rangeIndex)
  IN IF valid # "ok" THEN valid
     ELSE IF royalty.supports /\ feeSumOverflows THEN "ArithmeticPanic"
     ELSE IF ~transferAll(received(sender, value),
                          payments(sender, o.nodeAddress, price, value, royalty), reject).ok
       THEN "TransferFailed"
     ELSE IF buyTokenOpenSales(catalogIndex, rangeIndex) < 0 THEN "ArithmeticPanic"
     ELSE "ok"

\* the collection is not part of this contract; by the interface the
\* marketplace consumes, its mint refuses a token it has already minted
mintRefused(collection, internalTokenIndex) == <<collection, internalTokenIndex>> \in minted

\* what a revert of the purchase brings back: storage, balances, the tokens
\* of the collection and the log as they were when the purchase began
snapshot == [offerCatalog |-> offerCatalog, contractToOffer |-> contractToOffer,
             openSales |-> openSales, treasury |-> treasury, treasuryFee |-> treasuryFee,
             nodeFee |-> nodeFee, initialized |-> initialized, balances |-> balances,
             minted |-> minted, events |-> TxEvents]

buyTokenCall(sender, catalogIndex, rangeIndex, internalTokenIndex, value, royalty, reject) ==
  LET res == buyTokenResult(sender, catalogIndex, rangeIndex, internalTokenIndex, value,
                            royalty, reject)
      o == At(offerCatalog, catalogIndex)
      price == At(o.rangePrice, rangeIndex)
  IN IF res # "ok" THEN Revert("buyToken", res)
     ELSE IF mintRefused(o.contractAddress, internalTokenIndex)
       THEN Revert("buyToken", "MintFailed")
     ELSE /\ offerCatalog' = buyTokenCatalog(catalogIndex, rangeIndex)
          /\ openSales' = buyTokenOpenSales(catalogIndex, rangeIndex)
          /\ balances' = transferAll(received(sender, value),
                                     payments(sender, o.nodeAddress, price, value, royalty),
                                     reject).balances
          /\ events' = TxEvents \o
               (IF buyTokenSoldOut(catalogIndex, rangeIndex)
                THEN <<Event("SoldOut", <<o.contractAddress, catalogIndex, rangeIndex>>)>>
                ELSE <<>>)
          /\ minted' = minted \cup {<<o.contractAddress, internalTokenIndex>>}
          /\ stack' = Append(stack, [sender |-> sender, catalogIndex |-> catalogIndex,
                                     rangeIndex |-> rangeIndex,
                                     tokenIndex |-> internalTokenIndex,
                                     calls |-> 0, saved |-> snapshot])
          /\ lastOp' = "buyToken"
          /\ lastResult' = "minting"
          /\ UNCHANGED <<contractToOffer, configVars>>

\* a top-level purchase, or one re-entered from inside a mint call in progress
buyToken ==
  /\ depthInBounds
  /\ callbackInBounds
  /\ \/ \E sender \in Buyers, catalogIndex \in OfferIndexInputs, rangeIndex \in RangeIndexInputs,
            internalTokenIndex \in Tokens, value \in Payments :
          /\ balances[sender] >= value
          /\ buyTokenValidation(catalogIndex, rangeIndex, internalTokenIndex, value) = "ok"
          /\ \E royalty \in RoyaltyInputs(At(offerCatalog, catalogIndex).contractAddress),
                reject \in RejectInputs :
               /\ buyTokenResult(sender, catalogIndex, rangeIndex, internalTokenIndex, value,
                                 royalty, reject) = "ok"
               /\ buyTokenCall(sender, catalogIndex, rangeIndex, internalTokenIndex, value,
                               royalty, reject)
     \/ /\ ~(\A sender \in Buyers, catalogIndex \in OfferIndexInputs,
               rangeIndex \in RangeIndexInputs, internalTokenIndex \in Tokens,
               value \in Payments, reject \in RejectInputs :
               /\ balances[sender] >= value
               /\ buyTokenValidation(catalogIndex, rangeIndex, internalTokenIndex, value) = "ok"
               /\ \A royalty \in RoyaltyInputs(At(offerCatalog, catalogIndex).contractAddress) :
                    buyTokenResult(sender, catalogIndex, rangeIndex, internalTokenIndex,
                                   value, royalty, reject) = "ok")
        /\ Revert("buyToken", "refused")

\* the mint call of line 327 returns: line 328 runs and the purchase is settled
mintReturns ==
  /\ stack # <<>>
  /\ LET f == stack[Len(stack)]
     IN /\ events' = events \o
             <<Event("TokenMinted",
                     <<f.sender, At(offerCatalog, f.catalogIndex).contractAddress,
                       f.catalogIndex, f.rangeIndex, f.tokenIndex>>)>>
        /\ stack' = (IF Len(stack) = 1 THEN <<>>
                     ELSE [Front(stack) EXCEPT ![Len(stack) - 1].calls = @ + 1 + f.calls])
        /\ lastOp' = "buyToken"
        /\ lastResult' = "ok"
        /\ UNCHANGED <<catalogVars, configVars, balances, minted>>

\* the mint call of line 327 reverts: so does the purchase that made it
mintReverts ==
  /\ stack # <<>>
  /\ LET f == stack[Len(stack)]
     IN /\ offerCatalog' = f.saved.offerCatalog
        /\ contractToOffer' = f.saved.contractToOffer
        /\ openSales' = f.saved.openSales
        /\ treasury' = f.saved.treasury
        /\ treasuryFee' = f.saved.treasuryFee
        /\ nodeFee' = f.saved.nodeFee
        /\ initialized' = f.saved.initialized
        /\ balances' = f.saved.balances
        /\ minted' = f.saved.minted
        /\ events' = f.saved.events
        /\ stack' = Front(stack)
        /\ lastOp' = "buyToken"
        /\ lastResult' = "MintFailed"

Next ==
  \/ initialize
  \/ addOffer
  \/ appendOfferRange
  \/ appendOfferRangeBatch
  \/ updateOfferRange
  \/ buyToken
  \/ mintReturns
  \/ mintReverts
  \/ setTreasuryAddress
  \/ setTreasuryFee
  \/ setNodeFee

Spec == Init /\ [][Next]_vars

\* ------------------------------------------------- purchases under fee rates
\* (treasuryFee, nodeFee) pairs given to initialize: none, the recommended
\* pair, a pair under which the node's share of the lowest price is not 0,
\* the largest sum a uint16 holds, two pairs that add up to the denominator,
\* and a pair beyond it
SplitFeeInputs == {<<0, 0>>, <<9000, 1000>>, <<30000, 34000>>, <<40000, 25535>>,
                   <<50000, 50000>>, <<65535, 34465>>, <<60000, 60000>>}

\* the state after initialize with one of these pairs and one addOffer, by
\* the creator of a collection, of a single range over all the tokens
SplitInit ==
  \E fees \in SplitFeeInputs, tokenAddress \in Collections, l \in RelabelInputs,
     productIndex \in ProductInputs, nodeAddress \in NodeInputs :
    LET batch == <<[start |-> 0, end |-> MaxToken, price |-> l[1], name |-> l[2]]>>
        pushed == <<[emptyOffer EXCEPT !.contractAddress = tokenAddress,
                                       !.nodeAddress = nodeAddress,
                                       !.productIndex = productIndex]>>
    IN /\ offerCatalog = appendAll(pushed, 0, batch)
       /\ contractToOffer = [a \in TokenAddressInputs |-> 0]
       /\ openSales = 1
       /\ treasury \in TreasuryInputs
       /\ treasuryFee = fees[1] /\ nodeFee = fees[2]
       /\ initialized = TRUE
       /\ balances = [a \in Accounts |-> IF a \in Buyers THEN InitialFunds ELSE 0]
       /\ minted = {}
       /\ events = appendAllEvents(pushed, 0, batch) \o
                     <<Event("AddedOffer", <<tokenAddress, productIndex, 1, 0>>)>>
       /\ stack = <<>>
       /\ lastOp = "addOffer"
       /\ lastResult = "ok"

SplitNext ==
  \/ buyToken
  \/ mintReturns
  \/ mintReverts

SplitSpec == SplitInit /\ [][SplitNext]_vars

\* -------------------------------------------------- relabelling of ranges
\* the state after initialize and one addOffer, by the creator of a
\* collection, of two ranges: all the tokens, and all but the last
RelabelInit ==
  \E fees \in FeeInputs, tokenAddress \in Collections,
     productIndex \in ProductInputs, nodeAddress \in NodeInputs :
    LET batch == <<[start |-> 0, end |-> MaxToken, price |-> 3, name |-> "a"],
                   [start |-> 0, end |-> MaxToken - 1, price |-> 3, name |-> "a"]>>
        pushed == <<[emptyOffer EXCEPT !.contractAddress = tokenAddress,
                                       !.nodeAddress = nodeAddress,
                                       !.productIndex = productIndex]>>
    IN /\ offerCatalog = appendAll(pushed, 0, batch)
       /\ contractToOffer = [a \in TokenAddressInputs |-> 0]
       /\ openSales = 2
       /\ treasury \in TreasuryInputs
       /\ treasuryFee = fees[1] /\ nodeFee = fees[2]
       /\ initialized = TRUE
       /\ balances = [a \in Accounts |-> IF a \in Buyers THEN InitialFunds ELSE 0]
       /\ minted = {}
       /\ events = appendAllEvents(pushed, 0, batch) \o
                     <<Event("AddedOffer", <<tokenAddress, productIndex, 2, 0>>)>>
       /\ stack = <<>>
       /\ lastOp = "addOffer"
       /\ lastResult = "ok"

\* updateOfferRange with either label
updateOfferRangeRelabel ==
  /\ callbackInBounds
  /\ \/ \E offerIndex \in OfferIndexInputs, rangeIndex \in RangeIndexInputs,
            b \in BoundInputs, roles \in RoleInputs :
          /\ updateOfferRangeResult(offerIndex, rangeIndex, roles, b[1], b[2]) = "ok"
          /\ \E l \in RelabelInputs :
               updateOfferRangeCall(offerIndex, rangeIndex, roles, b[1], b[2], l[1], l[2])
     \/ /\ ~(\A offerIndex \in OfferIndexInputs, rangeIndex \in RangeIndexInputs,
               b \in BoundInputs, roles \in RoleInputs :
               updateOfferRangeResult(offerIndex, rangeIndex, roles, b[1], b[2]) = "ok")
        /\ Revert("updateOfferRange", "refused")

RelabelNext ==
  \/ updateOfferRangeRelabel
  \/ buyToken
  \/ mintReturns
  \/ mintReverts

RelabelSpec == RelabelInit /\ [][RelabelNext]_vars

\* ---------------------------------------------------------------- claims
offers == {offerCatalog[i] : i \in 1 .. Len(offerCatalog)}
hasOffer(collection) == \E o \in offers : o.contractAddress = collection
OneBatches == {b \in BatchInputs : Len(b) <= 1}
\* the error of a caller whose roles are not both granted
roleError(roles) ==
  IF ~roles.minter THEN "NotAuthorizedAsMinter" ELSE "NotAuthorizedAsCreator"

\* C1 (amended): no two offers of the catalog have the same collection
\* address, in every reachable state; a step that adds an offer adds it for a
\* collection that had none and every other step leaves the offers' addresses
\* alone; and addOffer for a collection that has an offer is refused whatever
\* its arguments: with the role error when the marketplace is not a minter or
\* the caller not the creator, with OfferAlreadyExists otherwise.
C1_UniqueOffer ==
  /\ [](/\ \A i, j \in 1 .. Len(offerCatalog) :
             i # j => offerCatalog[i].contractAddress # offerCatalog[j].contractAddress
        /\ \A tokenAddress \in Collections, roles \in RoleInputs, batch \in OneBatches,
              short \in ShortInputs, mintableTokensLeft \in {0, 1} :
             hasOffer(tokenAddress) =>
               addOfferResult(tokenAddress, roles, batch, short, mintableTokensLeft) =
                 (IF roles = AllRoles THEN "OfferAlreadyExists" ELSE roleError(roles)))
  /\ [][/\ Len(offerCatalog') >= Len(offerCatalog)
        /\ \A i \in 1 .. Len(offerCatalog) :
             offerCatalog'[i].contractAddress = offerCatalog[i].contractAddress
        /\ \A i \in Len(offerCatalog) + 1 .. Len(offerCatalog') :
             ~hasOffer(offerCatalog'[i].contractAddress)]_vars

\* C1 (as stated): no two offers are for the same collection, and addOffer for
\* a collection that has an offer is refused with OfferAlreadyExists, whoever
\* calls.
C1_AlwaysOfferAlreadyExists ==
  /\ \A i, j \in 1 .. Len(offerCatalog) :
       i # j => offerCatalog[i].contractAddress # offerCatalog[j].contractAddress
  /\ \A tokenAddress \in Collections, roles \in RoleInputs :
       hasOffer(tokenAddress) =>
         addOfferResult(tokenAddress, roles, <<SampleRange>>, "none", 1) = "OfferAlreadyExists"

\* the catalog holds an offer, a range has since been appended to it, and
\* addOffer for its collection is refused
C1_Witness ==
  /\ Len(offerCatalog) = 1
  /\ lastOp = "appendOfferRange"
  /\ \E tokenAddress \in Collections :
       /\ hasOffer(tokenAddress)
       /\ addOfferResult(tokenAddress, AllRoles, <<SampleRange>>, "none", 1) = "OfferAlreadyExists"
\* C2: addOffer is refused with OfferAlreadyExists only for a collection that
\* has an offer: for a collection without one, with both roles granted, arrays
\* of equal length, well-formed bounds and mintable supply, addOffer succeeds
\* whatever other offers the catalog holds.
C2_NoFalseRefusal ==
  \A tokenAddress \in Collections, batch \in OneBatches :
    (/\ ~hasOffer(tokenAddress)
     /\ \A i \in 1 .. Len(batch) : batch[i].start < batch[i].end)
    => addOfferResult(tokenAddress, AllRoles, batch, "none", 1) = "ok"

\* ranges, as (catalog index, range index) pairs
rangeIds(catalog) ==
  {<<i, r>> \in (0 .. Len(catalog) - 1) \X (0 .. MaxRanges + MaxBatch) :
     r < Len(At(catalog, i).tokensAllowed)}
supplyOf(catalog, id) == At(At(catalog, id[1]).tokensAllowed, id[2])
startOf(catalog, id) == At(At(catalog, id[1]).tokenRangeStart, id[2])
endOf(catalog, id) == At(At(catalog, id[1]).tokenRangeEnd, id[2])
priceOf(catalog, id) == At(At(catalog, id[1]).rangePrice, id[2])
nameOf(catalog, id) == At(At(catalog, id[1]).rangeName, id[2])

\* a step in which a purchase passes its checks and issues its mint call
mintIssued == Len(stack') = Len(stack) + 1
\* a step in which the mint call in progress reverts
mintFailed == Len(stack') = Len(stack) - 1 /\ lastResult' = "MintFailed"
topFrame(stk) == stk[Len(stk)]

\* C3: a purchase that passes takes exactly 1 from the supply of its range
\* and from no other; no supply is ever negative; a purchase on a range whose
\* supply is 0 is refused with RangeSoldOut for every token and every amount;
\* and a supply of 0 stays 0 (but for the revert of the purchase that took it
\* there).
C3_SupplyDecrement ==
  /\ [](/\ \A id \in rangeIds(offerCatalog) : supplyOf(offerCatalog, id) >= 0
        /\ \A id \in rangeIds(offerCatalog), sender \in Buyers, tok \in Tokens,
              value \in Payments, reject \in RejectInputs :
             supplyOf(offerCatalog, id) = 0 =>
               \A royalty \in RoyaltyInputs(At(offerCatalog, id[1]).contractAddress) :
                 buyTokenResult(sender, id[1], id[2], tok, value, royalty, reject)
                   = "RangeSoldOut")
  /\ [][/\ mintIssued =>
             LET f == topFrame(stack')
             IN \A id \in rangeIds(offerCatalog) :
                  supplyOf(offerCatalog', id) =
                    supplyOf(offerCatalog, id) -
                      (IF id = <<f.catalogIndex, f.rangeIndex>> THEN 1 ELSE 0)
        /\ ~mintFailed =>
             \A id \in rangeIds(offerCatalog) :
               supplyOf(offerCatalog, id) = 0 => supplyOf(offerCatalog', id) = 0]_vars

\* the last token of a range has been bought and the purchase settled; the
\* next purchase on that range is refused
C3_Witness ==
  /\ stack = <<>>
  /\ lastOp = "buyToken" /\ lastResult = "ok"
  /\ \E id \in rangeIds(offerCatalog) :
       /\ supplyOf(offerCatalog, id) = 0
       /\ \E e \in 1 .. Len(events) : events[e].name = "SoldOut"
       /\ buyTokenResult("b1", id[1], id[2], startOf(offerCatalog, id), 100, NoRoyalty, "none")
            = "RangeSoldOut"

\* C4: openSales is the number of ranges, over all offers, whose supply is
\* greater than 0.
openRanges == Cardinality({id \in rangeIds(offerCatalog) : supplyOf(offerCatalog, id) > 0})
C4_OpenSalesCount == openSales = openRanges
RECURSIVE sumAmounts(_)
sumAmounts(pays) == IF pays = <<>> THEN 0 ELSE Head(pays).amount + sumAmounts(Tail(pays))

\* the purchases on a range of a collection with royalty support that go
\* through: <<range, msg.value, royalty answer>>
royaltyPurchases ==
  {p \in rangeIds(offerCatalog) \X Payments \X RoyaltyInputs("c1") :
     /\ At(offerCatalog, p[1][1]).contractAddress \in RoyaltyCollections
     /\ \E tok \in Tokens :
          buyTokenResult("b1", p[1][1], p[1][2], tok, p[2], p[3], "none") = "ok"}
paidOut(p) ==
  sumAmounts(payments("b1", At(offerCatalog, p[1][1]).nodeAddress,
                      priceOf(offerCatalog, p[1]), p[2], p[3]))

\* C5 (as stated): on a purchase with royalty support the amounts sent to the
\* treasury, the node, the creator and back to the buyer add up to msg.value.
C5_ExactSplit == \A p \in royaltyPurchases : paidOut(p) = p[2]

\* C5 (amended): on a purchase with royalty support the four amounts add up to
\* msg.value less what the three divisions by 100000 round off: never more
\* than msg.value, at most 2 less, and equal exactly when the three products
\* are multiples of 100000.
C5_SplitUpToRounding ==
  \A p \in royaltyPurchases :
    LET price == priceOf(offerCatalog, p[1])
    IN /\ paidOut(p) <= p[2]
       /\ paidOut(p) >= p[2] - 2
       /\ paidOut(p) = p[2] <=>
            /\ (price * treasuryFee) % DENOM = 0
            /\ (price * nodeFee) % DENOM = 0
            /\ (price * (DENOM - (treasuryFee + nodeFee))) % DENOM = 0

\* a purchase at price 3 on the collection with royalty support has settled:
\* the receiver got 2, treasury and node 0, and 1 stays with the marketplace
C5_Witness ==
  /\ stack = <<>>
  /\ lastOp = "buyToken" /\ lastResult = "ok"
  /\ balances["r1"] = 2 /\ balances["t1"] = 0 /\ balances["n1"] = 0
  /\ balances[Market] = 1
  /\ balances["b1"] = InitialFunds - 3
  /\ royaltyPurchases # {}

\* C6: on a purchase that goes through the treasury gets
\* price * treasuryFee / 100000, the node of the offer price * nodeFee / 100000,
\* the buyer msg.value - price back, and, only if the collection supports
\* royalties, the receiver it names gets
\* price * (100000 - (treasuryFee + nodeFee)) / 100000, whatever amount the
\* royalty query returned; the balances move by exactly these amounts.
C6_Recipients ==
  /\ [](\A id \in rangeIds(offerCatalog), value \in Payments :
          LET o == At(offerCatalog, id[1])
              price == priceOf(offerCatalog, id)
          IN \A royalty \in RoyaltyInputs(o.contractAddress) :
               (\E tok \in Tokens :
                  buyTokenResult("b1", id[1], id[2], tok, value, royalty, "none") = "ok")
               => payments("b1", o.nodeAddress, price, value, royalty) =
                    (IF o.contractAddress \in RoyaltyCollections
                     THEN <<[to |-> royalty.receiver, kind |-> "creator",
                             amount |-> (price * (100000 - (treasuryFee + nodeFee))) \div 100000]>>
                     ELSE <<>>) \o
                    <<[to |-> "b1", kind |-> "refund", amount |-> value - price],
                      [to |-> treasury, kind |-> "treasury",
                       amount |-> (price * treasuryFee) \div 100000],
                      [to |-> o.nodeAddress, kind |-> "node",
                       amount |-> (price * nodeFee) \div 100000]>>)
  /\ [][mintIssued =>
          LET f == topFrame(stack')
              o == At(offerCatalog, f.catalogIndex)
              price == priceOf(offerCatalog, <<f.catalogIndex, f.rangeIndex>>)
              t == (price * treasuryFee) \div 100000
              n == (price * nodeFee) \div 100000
              c == IF o.contractAddress \in RoyaltyCollections
                   THEN (price * (100000 - (treasuryFee + nodeFee))) \div 100000
                   ELSE 0
          IN \E receiver \in ReceiverInputs :
               balances' = [a \in Accounts |->
                 balances[a]
                   - (IF a = f.sender THEN price ELSE 0)
                   + (IF a = treasury THEN t ELSE 0)
                   + (IF a = o.nodeAddress THEN n ELSE 0)
                   + (IF a = receiver THEN c ELSE 0)
                   + (IF a = Market THEN price - t - n - c ELSE 0)]]_vars

\* a purchase at price 100 on the collection with royalty support has settled
\* under fees 9000 and 1000: 90 to the receiver (the royalty query said 5),
\* 9 to the treasury, 1 to the node
C6_Witness ==
  /\ stack = <<>>
  /\ lastOp = "buyToken" /\ lastResult = "ok"
  /\ balances["r1"] = 90 /\ balances["t1"] = 9 /\ balances["n1"] = 1
  /\ balances[Market] = 0
  /\ balances["b1"] = InitialFunds - 100

\* C7: the supply of the range, openSales and the SoldOut event are written
\* before the mint call is made: while the mint call of a purchase is in
\* progress the supply of its range is already at least 1 below what it was
\* when the purchase began, and if it is 0 every purchase on that range made
\* from inside the mint call is refused with RangeSoldOut.
C7_DecrementBeforeMint ==
  /\ [](stack # <<>> =>
          LET f == topFrame(stack)
              id == <<f.catalogIndex, f.rangeIndex>>
          IN /\ supplyOf(offerCatalog, id) <= supplyOf(f.saved.offerCatalog, id) - 1
             /\ supplyOf(offerCatalog, id) = 0 =>
                  \A sender \in Buyers, tok \in Tokens, value \in Payments,
                     reject \in RejectInputs,
                     royalty \in RoyaltyInputs(At(offerCatalog, id[1]).contractAddress) :
                    buyTokenResult(sender, id[1], id[2], tok, value, royalty, reject)
                      = "RangeSoldOut")
  /\ [][mintIssued =>
          LET f == topFrame(stack')
              id == <<f.catalogIndex, f.rangeIndex>>
              last == supplyOf(offerCatalog, id) = 1
          IN /\ supplyOf(offerCatalog', id) = supplyOf(offerCatalog, id) - 1
             /\ openSales' = openSales - (IF last THEN 1 ELSE 0)
             /\ events' = (IF stack = <<>> THEN <<>> ELSE events) \o
                  (IF last
                   THEN <<[name |-> "SoldOut",
                           args |-> <<At(offerCatalog, id[1]).contractAddress, id[1], id[2]>>]>>
                   ELSE <<>>)]_vars

\* the mint call of the purchase of the last token of a range is in progress:
\* the supply reads 0, openSales is one less than before the purchase, and a
\* purchase on the range made now is refused
C7_Witness ==
  /\ stack # <<>>
  /\ LET f == topFrame(stack)
         id == <<f.catalogIndex, f.rangeIndex>>
     IN /\ supplyOf(offerCatalog, id) = 0
        /\ supplyOf(f.saved.offerCatalog, id) = 1
        /\ openSales = f.saved.openSales - 1
        /\ events[Len(events)].name = "SoldOut"
        /\ buyTokenResult(f.sender, id[1], id[2], endOf(offerCatalog, id), 100, NoRoyalty, "none")
             = "RangeSoldOut"
\* the number of identifiers within the bounds of a range
widthOf(catalog, id) == endOf(catalog, id) - startOf(catalog, id) + 1
\* tokens sold from a range: its width less its supply
soldOf(catalog, id) == widthOf(catalog, id) - supplyOf(catalog, id)
RECURSIVE sumSold(_, _)
sumSold(catalog, ids) ==
  IF ids = {} THEN 0
  ELSE LET id == CHOOSE x \in ids : TRUE
       IN soldOf(catalog, id) + sumSold(catalog, ids \ {id})
RECURSIVE sumBalances(_)
sumBalances(accounts) ==
  IF accounts = {} THEN 0
  ELSE LET a == CHOOSE x \in accounts : TRUE
       IN balances[a] + sumBalances(accounts \ {a})
\* the kinds of transfer a purchase makes
kindsPaid(royalty) == {"refund", "treasury", "node"} \cup (IF royalty.supports THEN {"creator"} ELSE {})

\* a recipient of the given kind can reject its transfer: every one but a
\* treasury that is the zero address, which runs no code
canReject(kind) == kind = "treasury" => treasury # ZeroAddr

\* C8: a purchase whose mint call fails, or one of whose transfers fails,
\* leaves nothing behind: when the mint call reverts the catalog, the offer
\* lookup, openSales, the configuration, the balances, the minted tokens and
\* the event log are those from before the purchase, whatever was called
\* from inside the mint call; a purchase with a recipient that rejects its
\* transfer does not go through.  What a purchase that left something behind
\* would break holds in every state: the buyer has paid at least the lowest
\* and at most the highest price for each token the ranges have sold, the
\* funds of all accounts together are what they were at deployment, and a
\* transaction whose purchase failed in its mint call has logged nothing.
C8_FailedBuyPersistsNothing ==
  /\ [](/\ \A id \in rangeIds(offerCatalog), tok \in Tokens, value \in Payments,
              reject \in RejectInputs :
             \A royalty \in RoyaltyInputs(At(offerCatalog, id[1]).contractAddress) :
               (reject \in kindsPaid(royalty) /\ canReject(reject)) =>
                 buyTokenResult("b1", id[1], id[2], tok, value, royalty, reject) # "ok"
        /\ balances["b1"] <= InitialFunds - 3 * sumSold(offerCatalog, rangeIds(offerCatalog))
        /\ balances["b1"] >= InitialFunds - 100 * sumSold(offerCatalog, rangeIds(offerCatalog))
        /\ sumBalances(Accounts) = InitialFunds
        /\ (stack = <<>> /\ lastResult = "MintFailed") => events = <<>>)
  /\ [][mintFailed =>
          LET f == topFrame(stack)
          IN /\ offerCatalog' = f.saved.offerCatalog
             /\ openSales' = f.saved.openSales
             /\ balances' = f.saved.balances
             /\ minted' = f.saved.minted
             /\ events' = f.saved.events
             /\ contractToOffer' = f.saved.contractToOffer
             /\ treasury' = f.saved.treasury
             /\ treasuryFee' = f.saved.treasuryFee
             /\ nodeFee' = f.saved.nodeFee
             /\ initialized' = f.saved.initialized]_vars

\* the mint call of the only purchase made so far has reverted: no token is
\* minted, the supply is whole, the buyer has all funds, nothing is logged
C8_Witness ==
  /\ stack = <<>>
  /\ lastOp = "buyToken" /\ lastResult = "MintFailed"
  /\ minted = {}
  /\ events = <<>>
  /\ balances["b1"] = InitialFunds /\ balances[Market] = 0
  /\ rangeIds(offerCatalog) # {}
  /\ \A id \in rangeIds(offerCatalog) : soldOf(offerCatalog, id) = 0
  /\ openSales = openRanges

\* res is a refusal: the role error, or the error of a check made before the
\* roles are looked at, which the same call with both roles gets as well
refusedForRoles(res, resAllRoles, roles, earlier) ==
  /\ res # "ok"
  /\ res = roleError(roles) \/ (res \in earlier /\ res = resAllRoles)
MissingRoleInputs == RoleInputs \ {AllRoles}

\* C9: addOffer, appendOfferRange, appendOfferRangeBatch and updateOfferRange
\* go through only if the marketplace has the collection's MINTER role and
\* the caller its CREATOR role.  Without the first the call is refused with
\* NotAuthorizedAsMinter, with the first but without the second with
\* NotAuthorizedAsCreator, unless a check the code makes before the roles
\* (an index out of bounds, arrays of different length, an expanded range)
\* has already refused it; between transactions and for the calls made from
\* inside a mint call alike.  buyToken asks for no role.
C9_RoleGating ==
    \A roles \in MissingRoleInputs :
      /\ \A tokenAddress \in Collections, batch \in OneBatches, short \in {"none", "price"},
            mintableTokensLeft \in {0, 1} :
           refusedForRoles(
             addOfferResult(tokenAddress, roles, batch, short, mintableTokensLeft),
             addOfferResult(tokenAddress, AllRoles, batch, short, mintableTokensLeft),
             roles, {})
      /\ \A offerIndex \in OfferIndexInputs, b \in BoundInputs :
           /\ refusedForRoles(
                appendOfferRangeResult(offerIndex, roles, b[1], b[2]),
                appendOfferRangeResult(offerIndex, AllRoles, b[1], b[2]),
                roles, {"IndexOutOfBounds"})
           /\ \A rangeIndex \in RangeIndexInputs :
                refusedForRoles(
                  updateOfferRangeResult(offerIndex, rangeIndex, roles, b[1], b[2]),
                  updateOfferRangeResult(offerIndex, rangeIndex, AllRoles, b[1], b[2]),
                  roles, {"IndexOutOfBounds", "RangeExpansionNotAllowed"})
      /\ \A offerIndex \in OfferIndexInputs, batch \in OneBatches, short \in {"none", "price"} :
           refusedForRoles(
             appendOfferRangeBatchResult(offerIndex, roles, batch, short),
             appendOfferRangeBatchResult(offerIndex, AllRoles, batch, short),
             roles, {"RangeLengthMismatch", "IndexOutOfBounds"})

\* C9 (as stated): a listing operation on an offer and range that exist is
\* refused with NotAuthorizedAsMinter when the marketplace is not a minter of
\* the collection, and with NotAuthorizedAsCreator when the caller is not its
\* creator, whatever its other arguments.
C9_AlwaysRoleError ==
    \A roles \in {[minter |-> FALSE, creator |-> TRUE], [minter |-> TRUE, creator |-> FALSE]} :
      /\ \A tokenAddress \in Collections, batch \in OneBatches, short \in {"none", "price"} :
           addOfferResult(tokenAddress, roles, batch, short, 1) = roleError(roles)
      /\ \A id \in rangeIds(offerCatalog), b \in BoundInputs :
           /\ appendOfferRangeResult(id[1], roles, b[1], b[2]) = roleError(roles)
           /\ updateOfferRangeResult(id[1], id[2], roles, b[1], b[2]) = roleError(roles)
           /\ \A batch \in OneBatches, short \in {"none", "price"} :
                appendOfferRangeBatchResult(id[1], roles, batch, short) = roleError(roles)

\* a purchase waits in its mint call, the last call was a batch append made
\* from inside it by a caller with both roles, and the calls of callers
\* lacking a role are refused
C9_Witness ==
  /\ Len(stack) = 1
  /\ stack[1].calls = 1
  /\ lastOp = "appendOfferRangeBatch" /\ lastResult = "ok"
  /\ \E tokenAddress \in Collections :
       addOfferResult(tokenAddress, [minter |-> FALSE, creator |-> TRUE], <<SampleRange>>, "none", 1)
         = "NotAuthorizedAsMinter"
  /\ appendOfferRangeResult(0, [minter |-> TRUE, creator |-> FALSE], 0, 1)
       = "NotAuthorizedAsCreator"
  /\ appendOfferRangeBatchResult(0, [minter |-> FALSE, creator |-> FALSE], <<SampleRange>>, "none")
       = "NotAuthorizedAsMinter"
  /\ \E b \in BoundInputs :
       updateOfferRangeResult(0, 0, [minter |-> TRUE, creator |-> FALSE], b[1], b[2])
         = "NotAuthorizedAsCreator"

\* C10: updateOfferRange with a start below the range's start or an end above
\* its end is refused with RangeExpansionNotAllowed, whoever calls; and over
\* the life of a range its start never decreases and its end never increases
\* (a step that is not the rollback of a purchase whose mint call reverted,
\* which puts back the catalog the purchase began with, keeps every range
\* and does not lower its start or raise its end).
C10_NoExpansion ==
  /\ [](\A id \in rangeIds(offerCatalog), roles \in RoleInputs, b \in BoundInputs :
          (b[1] < startOf(offerCatalog, id) \/ b[2] > endOf(offerCatalog, id)) =>
            updateOfferRangeResult(id[1], id[2], roles, b[1], b[2])
              = "RangeExpansionNotAllowed")
  /\ [][IF mintFailed
        THEN offerCatalog' = topFrame(stack).saved.offerCatalog
        ELSE \A id \in rangeIds(offerCatalog) :
               /\ id \in rangeIds(offerCatalog')
               /\ startOf(offerCatalog', id) >= startOf(offerCatalog, id)
               /\ endOf(offerCatalog', id) <= endOf(offerCatalog, id)]_vars

\* the only range, from which token 0 was bought, has been narrowed to 1 .. 2
\* by updateOfferRange, and the update that would widen it again is refused
C10_Witness ==
  /\ lastOp = "updateOfferRange" /\ lastResult = "ok"
  /\ \E e \in 1 .. Len(events) : events[e].name = "UpdatedOffer"
  /\ rangeIds(offerCatalog) = {<<0, 0>>}
  /\ startOf(offerCatalog, <<0, 0>>) = 1 /\ endOf(offerCatalog, <<0, 0>>) = 2
  /\ <<At(offerCatalog, 0).contractAddress, 0>> \in minted
  /\ updateOfferRangeResult(0, 0, AllRoles, 0, 2) = "RangeExpansionNotAllowed"
\* the identifiers of a range's current bounds that no purchase has minted
unmintedIn(catalog, id) ==
  {t \in startOf(catalog, id) .. endOf(catalog, id) :
     <<At(catalog, id[1]).contractAddress, t>> \notin minted}

\* ranges of one offer whose bounds share no identifier with another range of it
disjointRanges(catalog) ==
  {id \in rangeIds(catalog) :
     \A other \in rangeIds(catalog) :
       (other[1] = id[1] /\ other # id) =>
         (endOf(catalog, other) < startOf(catalog, id) \/
          endOf(catalog, id) < startOf(catalog, other))}

\* C11: for every range the supply is the number of identifiers of its
\* current bounds that have not been minted by a purchase (stated for the
\* ranges that share no identifier with another range of their offer, where
\* a purchase through the offer is a purchase from the range).
C11_SupplyCountsUnminted ==
  \A id \in disjointRanges(offerCatalog) :
    supplyOf(offerCatalog, id) = Cardinality(unmintedIn(offerCatalog, id))

\* the ranges a step creates
createdRanges == rangeIds(offerCatalog') \ rangeIds(offerCatalog)

\* C12: every range a step creates (by addOffer, appendOfferRange or
\* appendOfferRangeBatch) has supply end - start + 1 in the state the step
\* leads to, and the step raises openSales by the number of ranges it
\* creates, 1 for each.
C12_CreatedSupply ==
  [][createdRanges # {} =>
       /\ lastOp' \in {"addOffer", "appendOfferRange", "appendOfferRangeBatch"}
       /\ \A id \in createdRanges :
            supplyOf(offerCatalog', id) =
              endOf(offerCatalog', id) - startOf(offerCatalog', id) + 1
       /\ openSales' = openSales + Cardinality(createdRanges)]_vars

\* appendOfferRangeBatch has just added two ranges to an offer that had none:
\* their supplies are their widths and openSales counts both
C12_Witness ==
  /\ lastOp = "appendOfferRangeBatch" /\ lastResult = "ok"
  /\ rangeIds(offerCatalog) = {<<0, 0>>, <<0, 1>>}
  /\ Len(events) = 2
  /\ startOf(offerCatalog, <<0, 0>>) = 0 /\ endOf(offerCatalog, <<0, 0>>) = 2
  /\ supplyOf(offerCatalog, <<0, 0>>) = 3
  /\ supplyOf(offerCatalog, <<0, 1>>) =
       endOf(offerCatalog, <<0, 1>>) - startOf(offerCatalog, <<0, 1>>) + 1
  /\ openSales = 2
\* C13: the supply of an existing range never increases.  A step that is not
\* the revert of a mint call keeps or lowers it, and changes it only as
\* updateOfferRange or buyToken; the revert of a mint call puts back the
\* supplies from before the purchase it undoes, none above what it was then.
C13_SupplyNeverIncreases ==
  [][/\ ~mintFailed =>
          \A id \in rangeIds(offerCatalog) :
            /\ id \in rangeIds(offerCatalog')
            /\ supplyOf(offerCatalog', id) <= supplyOf(offerCatalog, id)
            /\ supplyOf(offerCatalog', id) # supplyOf(offerCatalog, id) =>
                 lastOp' \in {"updateOfferRange", "buyToken"}
     /\ mintFailed =>
          /\ rangeIds(offerCatalog') = rangeIds(topFrame(stack).saved.offerCatalog)
          /\ \A id \in rangeIds(offerCatalog') :
               supplyOf(offerCatalog', id) = supplyOf(topFrame(stack).saved.offerCatalog, id)]_vars

\* updateOfferRange has lowered the supply of a range from which a token had
\* been bought: bounds 0 .. 1 of a range that began as 0 .. 2, supply 1
C13_Witness ==
  /\ lastOp = "updateOfferRange" /\ lastResult = "ok"
  /\ rangeIds(offerCatalog) = {<<0, 0>>}
  /\ startOf(offerCatalog, <<0, 0>>) = 0 /\ endOf(offerCatalog, <<0, 0>>) = 1
  /\ supplyOf(offerCatalog, <<0, 0>>) = 1
  /\ minted = {<<At(offerCatalog, 0).contractAddress, 2>>}
validationErrors ==
  {"InvalidOffer", "InvalidRange", "RangeSoldOut", "TokenOutsideRange", "InsufficientFunds"}
\* the error the claim names for a purchase, the first that applies in the
\* order it lists them, or "ok" if none does
expectedBuyError(catalogIndex, rangeIndex, tok, value) ==
  LET o == At(offerCatalog, catalogIndex)
      id == <<catalogIndex, rangeIndex>>
  IN IF o.contractAddress = ZeroAddr THEN "InvalidOffer"
     ELSE IF id \notin rangeIds(offerCatalog) THEN "InvalidRange"
     ELSE IF supplyOf(offerCatalog, id) = 0 THEN "RangeSoldOut"
     ELSE IF tok < startOf(offerCatalog, id) \/ tok > endOf(offerCatalog, id)
       THEN "TokenOutsideRange"
     ELSE IF value < priceOf(offerCatalog, id) THEN "InsufficientFunds"
     ELSE "ok"

\* C14: a purchase on an offer of the catalog is refused with the first of
\* InvalidOffer (zero collection address), InvalidRange (range index past the
\* ranges), RangeSoldOut (supply 0), TokenOutsideRange (token outside start ..
\* end) and InsufficientFunds (msg.value below the price) that applies, and
\* with none of them if none applies; a refused purchase changes nothing, so
\* every step that moves funds, mints or takes from a supply is a purchase on
\* an existing range with supply left, for a token of its bounds, paid in
\* full.  (No offer of a reachable catalog has the zero address.)
C14_BuyValidation ==
  /\ [](/\ \A i \in 1 .. Len(offerCatalog) : offerCatalog[i].contractAddress # ZeroAddr
        /\ \A catalogIndex \in 0 .. Len(offerCatalog) - 1, rangeIndex \in RangeIndexInputs,
              tok \in Tokens, value \in Payments :
             LET expected == expectedBuyError(catalogIndex, rangeIndex, tok, value)
             IN \A reject \in RejectInputs,
                   royalty \in RoyaltyInputs(At(offerCatalog, catalogIndex).contractAddress) :
                  LET res == buyTokenResult("b1", catalogIndex, rangeIndex, tok, value,
                                            royalty, reject)
                  IN IF expected = "ok" THEN res \notin validationErrors ELSE res = expected)
  /\ [][/\ (balances' # balances \/ minted' # minted) => (mintIssued \/ mintFailed)
        /\ mintIssued =>
             LET f == topFrame(stack')
                 id == <<f.catalogIndex, f.rangeIndex>>
             IN /\ id \in rangeIds(offerCatalog)
                /\ supplyOf(offerCatalog, id) > 0
                /\ startOf(offerCatalog, id) <= f.tokenIndex
                /\ f.tokenIndex <= endOf(offerCatalog, id)
                /\ balances[f.sender] >= priceOf(offerCatalog, id)
                /\ balances'[f.sender] = balances[f.sender] - priceOf(offerCatalog, id)]_vars

\* an offer with a sold-out first range and an open second range 1 .. 2 at
\* price 3: purchases get each of the four errors that can arise
C14_Witness ==
  /\ stack = <<>>
  /\ lastOp = "buyToken" /\ lastResult = "ok"
  /\ rangeIds(offerCatalog) = {<<0, 0>>, <<0, 1>>}
  /\ supplyOf(offerCatalog, <<0, 0>>) = 0
  /\ supplyOf(offerCatalog, <<0, 1>>) > 0
  /\ startOf(offerCatalog, <<0, 1>>) = 1
  /\ buyTokenResult("b1", 0, 2, 1, 100, NoRoyalty, "none") = "InvalidRange"
  /\ buyTokenResult("b1", 0, 0, 0, 100, NoRoyalty, "none") = "RangeSoldOut"
  /\ buyTokenResult("b1", 0, 1, 0, 100, NoRoyalty, "none") = "TokenOutsideRange"
  /\ buyTokenResult("b1", 0, 1, 1, 2, NoRoyalty, "none") = "InsufficientFunds"
\* calls whose four arrays are not of one length: a batch of one range with
\* one of its arrays a value short
MismatchInputs == (OneBatches \ {<<>>}) \X (ShortInputs \ {"none"})

\* C15: appendOfferRangeBatch with arrays of different lengths is refused
\* with RangeLengthMismatch, and so is addOffer by a caller with both roles
\* for a collection that has no offer.
C15_LengthMismatchRefused ==
  \A m \in MismatchInputs :
    /\ \A offerIndex \in OfferIndexInputs, roles \in RoleInputs :
         appendOfferRangeBatchResult(offerIndex, roles, m[1], m[2]) = "RangeLengthMismatch"
    /\ \A tokenAddress \in Collections, mintableTokensLeft \in {0, 1} :
         ~hasOffer(tokenAddress) =>
           addOfferResult(tokenAddress, AllRoles, m[1], m[2], mintableTokensLeft)
             = "RangeLengthMismatch"
\* C16: the view contractToOffer answers position p for an address only if
\* the offer at p is for that address, answers for every collection that
\* has an offer, and is refused with NoOfferForCollection for every address
\* that has none, the empty catalog and a position 0 taken by another
\* collection included; after addOffer it answers, for the collection of the
\* new offer, the catalog index the AddedOffer event carries.
C16_LookupOfferIndex ==
  /\ \A a \in TokenAddressInputs :
       LET v == contractToOfferView(a)
       IN /\ v.result \in {"ok", "NoOfferForCollection"}
          /\ v.result = "ok" =>
               /\ v.offerIndex < Len(offerCatalog)
               /\ At(offerCatalog, v.offerIndex).contractAddress = a
          /\ hasOffer(a) <=> v.result = "ok"
  /\ (lastOp = "addOffer" /\ stack = <<>>) =>
       LET e == events[Len(events)]
       IN /\ e.name = "AddedOffer"
          /\ contractToOfferView(e.args[1]) = [result |-> "ok", offerIndex |-> e.args[4]]

\* addOffer has just created the offer of c1 at position 0: the view answers
\* 0 for c1 and is refused for c2, whose mapping entry is the default 0
C16_Witness ==
  /\ lastOp = "addOffer" /\ lastResult = "ok"
  /\ events[Len(events)] = [name |-> "AddedOffer", args |-> <<"c1", 0, 2, 0>>]
  /\ contractToOfferView("c1") = [result |-> "ok", offerIndex |-> 0]
  /\ contractToOffer["c2"] = 0
  /\ contractToOfferView("c2").result = "NoOfferForCollection"
  /\ contractToOfferView(ZeroAddr).result = "NoOfferForCollection"
frameRange(k) == <<stack[k].catalogIndex, stack[k].rangeIndex>>
\* the purchases in progress, from the k-th on, that are on the range of the k-th
framesOn(k) == {j \in k .. Len(stack) : frameRange(j) = frameRange(k)}

\* C17: purchases nested in one another through the mint call (a transfer
\* gives its recipient no way to call back: it fails, and with it the
\* purchase) never take more from a range than it had.  For every purchase
\* in progress: the range had supply when it began; the purchases in
\* progress on the range from it on are no more than that supply, and alone
\* it if the supply was 1; the supply now is at least 0 and at most what it
\* was less those purchases and what a narrowing of the range took (a
\* range is never widened); and every unit the supply lost since, beyond
\* that narrowing, is a purchase the buyer has paid the lowest price or more
\* for, so that the purchases made on the range since are no more than the
\* supply it had.
C17_NoOversellUnderReentry ==
    \A k \in 1 .. Len(stack) :
       LET id == frameRange(k)
           before == supplyOf(stack[k].saved.offerCatalog, id)
           now == supplyOf(offerCatalog, id)
           narrowed == widthOf(stack[k].saved.offerCatalog, id) - widthOf(offerCatalog, id)
       IN /\ before >= 1
          /\ Cardinality(framesOn(k)) <= before
          /\ before = 1 => framesOn(k) = {k}
          /\ 0 <= now
          /\ narrowed >= 0
          /\ now <= before - narrowed - Cardinality(framesOn(k))
          /\ before - now - narrowed <= before
          /\ stack[k].saved.balances["b1"] - balances["b1"] >=
               3 * (before - now - narrowed)

\* two purchases are in progress on one range that had supply 2, the second
\* made from inside the mint call of the first: the supply is 0 and a third
\* is refused
C17_Witness ==
  /\ Len(stack) = 2
  /\ frameRange(1) = frameRange(2)
  /\ supplyOf(stack[1].saved.offerCatalog, frameRange(1)) = 2
  /\ supplyOf(stack[2].saved.offerCatalog, frameRange(1)) = 1
  /\ supplyOf(offerCatalog, frameRange(1)) = 0
  /\ \A tok \in Tokens :
       buyTokenResult("b1", stack[1].catalogIndex, stack[1].rangeIndex, tok, 100,
                      NoRoyalty, "none") = "RangeSoldOut"
\* C18: there is one authorized operator: its calls of setTreasuryAddress,
\* setTreasuryFee and setNodeFee are accepted and those of every other
\* caller are refused.
C18_OperatorAdministers ==
  \E operator \in SenderInputs :
    /\ \A newTreasury \in NewTreasuryInputs :
         ENABLED (/\ setTreasuryAddressCall(operator, newTreasury)
                  /\ lastOp' = "setTreasuryAddress" /\ treasury' = newTreasury)
    /\ \A newFee \in NewFeeInputs :
         /\ ENABLED (/\ setTreasuryFeeCall(operator, newFee)
                     /\ lastOp' = "setTreasuryFee" /\ treasuryFee' = newFee)
         /\ ENABLED (/\ setNodeFeeCall(operator, newFee)
                     /\ lastOp' = "setNodeFee" /\ nodeFee' = newFee)
    /\ \A sender \in SenderInputs \ {operator} : onlyOwner(sender) # "ok"
\* the mint call of the innermost purchase returns and the purchase settles
mintSettled == Len(stack') = Len(stack) - 1 /\ lastResult' = "ok"
soldOutEvent(catalog, id) ==
  [name |-> "SoldOut", args |-> <<At(catalog, id[1]).contractAddress, id[1], id[2]>>]
tokenMintedEvent(catalog, f) ==
  [name |-> "TokenMinted",
   args |-> <<f.sender, At(catalog, f.catalogIndex).contractAddress,
              f.catalogIndex, f.rangeIndex, f.tokenIndex>>]
\* the events logged since the purchase of frame f began
eventsSince(log, f) == SubSeq(log, Len(f.saved.events) + 1, Len(log))
\* how many events of the log are TokenMinted events
tokensMinted(log) == Cardinality({j \in 1 .. Len(log) : log[j].name = "TokenMinted"})

\* C19: a purchase that takes the supply of its range from 1 to 0 reaches its
\* mint call with openSales one less and SoldOut logged as its only event; a
\* purchase that leaves supply reaches it with openSales as it was and
\* nothing logged (no TokenMinted either way).  While the mint call of a
\* purchase is in progress, the events logged before the purchase are
\* untouched and its SoldOut (if any) is the first event after them,
\* whatever the calls made from inside the mint call log after it.  When
\* the mint call returns, exactly one event is appended, the TokenMinted of
\* the buyer, collection, offer index, range index and token of that call,
\* and nothing else changes; no other step adds a TokenMinted to the log of
\* its transaction.
C19_SoldOutThenMintThenTokenMinted ==
  /\ [](\A k \in 1 .. Len(stack) :
          LET f == stack[k]
              id == <<f.catalogIndex, f.rangeIndex>>
              since == eventsSince(events, f)
          IN /\ Len(events) >= Len(f.saved.events)
             /\ SubSeq(events, 1, Len(f.saved.events)) = f.saved.events
             /\ supplyOf(f.saved.offerCatalog, id) = 1 =>
                  /\ since # <<>>
                  /\ since[1] = soldOutEvent(offerCatalog, id))
  /\ [][/\ mintIssued =>
             LET f == topFrame(stack')
                 id == <<f.catalogIndex, f.rangeIndex>>
             IN IF supplyOf(offerCatalog, id) = 1
                THEN /\ supplyOf(offerCatalog', id) = 0
                     /\ openSales' = openSales - 1
                     /\ eventsSince(events', f) = <<soldOutEvent(offerCatalog, id)>>
                ELSE /\ supplyOf(offerCatalog', id) > 0
                     /\ openSales' = openSales
                     /\ eventsSince(events', f) = <<>>
        /\ mintSettled =>
             LET f == topFrame(stack)
             IN /\ events' = Append(events, tokenMintedEvent(offerCatalog, f))
                /\ tokensMinted(events') = tokensMinted(events) + 1
                /\ UNCHANGED <<catalogVars, balances, minted>>
        /\ ~mintSettled => tokensMinted(events') <= tokensMinted(TxEvents)]_vars

\* a settled top-level purchase of the last token of a range, from inside
\* whose mint call a range was appended: its log is SoldOut, then the event
\* of the call-back, then TokenMinted with the buyer and token of the call
C19_Witness ==
  /\ stack = <<>>
  /\ lastOp = "buyToken"
  /\ lastResult = "ok"
  /\ Len(events) = 3
  /\ events[1].name = "SoldOut"
  /\ events[2].name = "AppendedRange"
  /\ events[3].name = "TokenMinted"
  /\ events[3].args[1] \in Buyers
  /\ <<events[3].args[2], events[3].args[5]>> \in minted
\* a range keeps its five fields over the step
rangeUnchanged(id) ==
  /\ supplyOf(offerCatalog', id) = supplyOf(offerCatalog, id)
  /\ startOf(offerCatalog', id) = startOf(offerCatalog, id)
  /\ endOf(offerCatalog', id) = endOf(offerCatalog, id)
  /\ priceOf(offerCatalog', id) = priceOf(offerCatalog, id)
  /\ nameOf(offerCatalog', id) = nameOf(offerCatalog, id)

\* C20: a successful updateOfferRange of range rangeIndex of offer offerIndex
\* with bounds b, price l[1] and name l[2] sets the supply of the range to
\* oldSupply - ((oldEnd - oldStart) - (b[2] - b[1])), sets its start, end,
\* price and name to the values given, whatever they were, and logs one
\* UpdatedOffer with the collection, the two indices, the supply after the
\* update, the price and the name (after the events of the transaction it is
\* called in, when called from inside a mint call); no range is added or removed, every other range keeps its five
\* fields, every offer keeps its collection, node address and product index,
\* and openSales and the offer lookup are as before.
C20_UpdateEffect ==
  [][(lastOp' = "updateOfferRange" /\ vars' # vars) =>
     \A offerIndex \in OfferIndexInputs, rangeIndex \in RangeIndexInputs,
        b \in BoundInputs, l \in RelabelInputs :
       ( /\ updateOfferRangeResult(offerIndex, rangeIndex, AllRoles, b[1], b[2]) = "ok"
         /\ updateOfferRangeCall(offerIndex, rangeIndex, AllRoles, b[1], b[2], l[1], l[2]) )
       => LET id == <<offerIndex, rangeIndex>>
              before == offerCatalog
          IN /\ supplyOf(offerCatalog', id) =
                  supplyOf(before, id)
                    - ((endOf(before, id) - startOf(before, id)) - (b[2] - b[1]))
             /\ startOf(offerCatalog', id) = b[1]
             /\ endOf(offerCatalog', id) = b[2]
             /\ priceOf(offerCatalog', id) = l[1]
             /\ nameOf(offerCatalog', id) = l[2]
             /\ events' = (IF stack = <<>> THEN <<>> ELSE events) \o
                  <<[name |-> "UpdatedOffer",
                     args |-> <<At(before, offerIndex).contractAddress, offerIndex,
                                rangeIndex, supplyOf(offerCatalog', id), l[1], l[2]>>]>>
             /\ rangeIds(offerCatalog') = rangeIds(before)
             /\ \A other \in rangeIds(before) \ {id} : rangeUnchanged(other)
             /\ Len(offerCatalog') = Len(before)
             /\ \A i \in 1 .. Len(before) :
                  /\ offerCatalog'[i].contractAddress = before[i].contractAddress
                  /\ offerCatalog'[i].nodeAddress = before[i].nodeAddress
                  /\ offerCatalog'[i].productIndex = before[i].productIndex
             /\ openSales' = openSales
             /\ contractToOffer' = contractToOffer]_vars

\* updateOfferRange has succeeded on one of the two ranges of an offer after
\* a token of that range was bought, giving it the price 100 and the name b
\* in place of 3 and a: the event carries the supply the range now has,
\* which is below the width of its bounds, and the other range has its full
\* supply
C20_Witness ==
  /\ lastOp = "updateOfferRange" /\ lastResult = "ok"
  /\ Len(events) = 1
  /\ events[1].name = "UpdatedOffer"
  /\ LET id == <<events[1].args[2], events[1].args[3]>>
     IN /\ id \in rangeIds(offerCatalog)
        /\ priceOf(offerCatalog, id) = 100 /\ nameOf(offerCatalog, id) = "b"
        /\ events[1].args[5] = 100 /\ events[1].args[6] = "b"
        /\ Cardinality({other \in rangeIds(offerCatalog) : other[1] = id[1]}) = 2
        /\ events[1].args[4] = supplyOf(offerCatalog, id)
        /\ supplyOf(offerCatalog, id) < (endOf(offerCatalog, id) - startOf(offerCatalog, id)) + 1
        /\ \A other \in rangeIds(offerCatalog) \ {id} :
             supplyOf(offerCatalog, other) =
               (endOf(offerCatalog, other) - startOf(offerCatalog, other)) + 1
\* the number of ranges of the offer at position i of a catalog, and whether
\* its five range arrays have that one length
rangeCount(catalog, i) == Len(catalog[i].tokensAllowed)
arraysAligned(catalog, i) ==
  /\ Len(catalog[i].tokenRangeStart) = rangeCount(catalog, i)
  /\ Len(catalog[i].tokenRangeEnd) = rangeCount(catalog, i)
  /\ Len(catalog[i].rangePrice) = rangeCount(catalog, i)
  /\ Len(catalog[i].rangeName) = rangeCount(catalog, i)

\* C21: over every step but the rollback of a purchase whose mint call
\* reverted the number of offers and the number of ranges of each offer do
\* not decrease and every offer keeps its collection address, node address
\* and product index, and the rollback puts back the catalog and the offer
\* lookup the purchase began with; the step of a purchase that reaches its
\* mint call lowers the supply of the range it targets by 1, lowers
\* openSales by 1 exactly when that supply becomes 0, and leaves the number
\* of offers and ranges, the start, end, price and name of every range, the
\* supply of every other range and the offer lookup as they were; the step
\* that settles the purchase changes none of them.
C21_AppendOnlyNarrowBuy ==
  [][/\ IF mintFailed
        THEN /\ offerCatalog' = topFrame(stack).saved.offerCatalog
             /\ contractToOffer' = topFrame(stack).saved.contractToOffer
        ELSE /\ Len(offerCatalog') >= Len(offerCatalog)
             /\ \A i \in 1 .. Len(offerCatalog) :
                  /\ rangeCount(offerCatalog', i) >= rangeCount(offerCatalog, i)
                  /\ arraysAligned(offerCatalog', i)
                  /\ offerCatalog'[i].contractAddress = offerCatalog[i].contractAddress
                  /\ offerCatalog'[i].nodeAddress = offerCatalog[i].nodeAddress
                  /\ offerCatalog'[i].productIndex = offerCatalog[i].productIndex
     /\ mintIssued =>
          LET f == topFrame(stack')
              id == <<f.catalogIndex, f.rangeIndex>>
          IN /\ Len(offerCatalog') = Len(offerCatalog)
             /\ rangeIds(offerCatalog') = rangeIds(offerCatalog)
             /\ id \in rangeIds(offerCatalog)
             /\ supplyOf(offerCatalog', id) = supplyOf(offerCatalog, id) - 1
             /\ openSales' =
                  IF supplyOf(offerCatalog', id) = 0 THEN openSales - 1 ELSE openSales
             /\ \A other \in rangeIds(offerCatalog) :
                  /\ startOf(offerCatalog', other) = startOf(offerCatalog, other)
                  /\ endOf(offerCatalog', other) = endOf(offerCatalog, other)
                  /\ priceOf(offerCatalog', other) = priceOf(offerCatalog, other)
                  /\ nameOf(offerCatalog', other) = nameOf(offerCatalog, other)
                  /\ other # id =>
                       supplyOf(offerCatalog', other) = supplyOf(offerCatalog, other)
             /\ contractToOffer' = contractToOffer
     /\ mintSettled => UNCHANGED catalogVars]_vars

\* a purchase has settled on the second of the two ranges of an offer: the
\* range bought from has one token less than its bounds hold, the first
\* range has all of its tokens
C21_Witness ==
  /\ stack = <<>>
  /\ lastOp = "buyToken" /\ lastResult = "ok"
  /\ rangeIds(offerCatalog) = {<<0, 0>>, <<0, 1>>}
  /\ soldOf(offerCatalog, <<0, 1>>) = 1
  /\ soldOf(offerCatalog, <<0, 0>>) = 0
  /\ Cardinality(minted) = 1
\* batches with a pair whose start is not below its end, a well-formed pair
\* before it included
InvalidBatches == {batch \in BatchInputs :
                     \E i \in 1 .. Len(batch) : batch[i].start >= batch[i].end}

\* C22: appendOfferRangeBatch on an existing offer, and addOffer for a
\* collection that has no offer and has mintable tokens, are refused with
\* InvalidRangeBounds when a pair of the batch has start >= end; addOffer
\* for a collection that has no offer and reports no mintable token is
\* refused with NoMintableSupply (the caller has both roles and the arrays
\* are of one length throughout).
C22_BatchRefusedWithItsError ==
  /\ \A batch \in InvalidBatches :
       /\ \A offerIndex \in OfferIndexInputs :
            offerIndex < Len(offerCatalog) =>
              appendOfferRangeBatchResult(offerIndex, AllRoles, batch, "none")
                = "InvalidRangeBounds"
       /\ \A tokenAddress \in Collections :
            ~hasOffer(tokenAddress) =>
              addOfferResult(tokenAddress, AllRoles, batch, "none", 1) = "InvalidRangeBounds"
  /\ \A batch \in BatchInputs \ InvalidBatches, tokenAddress \in Collections :
       ~hasOffer(tokenAddress) =>
         addOfferResult(tokenAddress, AllRoles, batch, "none", 0) = "NoMintableSupply"
\* what line 242 subtracts from the supply of a range for new bounds b
shrink(catalog, id, b) == (endOf(catalog, id) - startOf(catalog, id)) - (b[2] - b[1])

\* C23: in every reachable state every range has start < end and a supply
\* between 0 and end - start + 1, and updateOfferRange of a range is refused,
\* whoever calls, when the new bounds are equal or inverted or when the
\* amount the new bounds take off the supply exceeds the supply.
C23_RangeWellFormed ==
  \A id \in rangeIds(offerCatalog) :
    /\ startOf(offerCatalog, id) < endOf(offerCatalog, id)
    /\ 0 <= supplyOf(offerCatalog, id)
    /\ supplyOf(offerCatalog, id) <= endOf(offerCatalog, id) - startOf(offerCatalog, id) + 1
    /\ \A roles \in RoleInputs, b \in Tokens \X Tokens :
         (b[1] >= b[2] \/ shrink(offerCatalog, id, b) > supplyOf(offerCatalog, id)) =>
           updateOfferRangeResult(id[1], id[2], roles, b[1], b[2]) # "ok"

\* every token of the range 0 .. 2 has been bought: narrowing it to 0 .. 1
\* would take 1 off a supply of 0 and is refused, and so is an update to the
\* equal bounds 1 .. 1
C23_Witness ==
  /\ stack = <<>>
  /\ <<0, 0>> \in rangeIds(offerCatalog)
  /\ startOf(offerCatalog, <<0, 0>>) = 0 /\ endOf(offerCatalog, <<0, 0>>) = 2
  /\ supplyOf(offerCatalog, <<0, 0>>) = 0
  /\ shrink(offerCatalog, <<0, 0>>, <<0, 1>>) = 1
  /\ updateOfferRangeResult(0, 0, AllRoles, 0, 1) = "ArithmeticPanic"
  /\ updateOfferRangeResult(0, 0, AllRoles, 1, 1) = "InvalidRangeBounds"
\* the purchases on a range that pass the requires of lines 301-307 and, on
\* the royalty path, the uint16 addition of line 316:
\* <<range, msg.value, royalty answer>>
validPurchases ==
  {p \in rangeIds(offerCatalog) \X Payments \X
         UNION {RoyaltyInputs(c) : c \in Collections} :
     /\ p[3] \in RoyaltyInputs(At(offerCatalog, p[1][1]).contractAddress)
     /\ \E tok \in Tokens : buyTokenValidation(p[1][1], p[1][2], tok, p[2]) = "ok"
     /\ ~(p[3].supports /\ feeSumOverflows)}

\* C24: when treasuryFee + nodeFee <= 100000, the amounts a purchase sends
\* out (the refund, the treasury's and the node's shares and, with royalty
\* support, the creator's share) add up to at most msg.value, whatever the
\* marketplace holds; the step of a purchase that reaches its mint call
\* leaves the marketplace with at least the balance it had, and takes from
\* the buyer at most the price; the settling step moves no balance.
C24_NoOverpayment ==
  /\ [](treasuryFee + nodeFee <= DENOM =>
          \A p \in validPurchases : paidOut(p) <= p[2])
  /\ [][/\ (mintIssued /\ treasuryFee + nodeFee <= DENOM) =>
             LET f == topFrame(stack')
                 id == <<f.catalogIndex, f.rangeIndex>>
             IN /\ balances'[Market] >= balances[Market]
                /\ balances'[f.sender] >= balances[f.sender] - priceOf(offerCatalog, id)
        /\ mintSettled => balances' = balances]_vars

\* a purchase at price 3 with royalty support has settled under the fee
\* rates 40000 and 25535: the treasury got 1, the node 0, the receiver 1,
\* and 1 of the 3 received stays with the marketplace
C24_Witness ==
  /\ stack = <<>>
  /\ lastOp = "buyToken" /\ lastResult = "ok"
  /\ treasuryFee = 40000 /\ nodeFee = 25535
  /\ balances["t1"] = 1 /\ balances["n1"] = 0 /\ balances["r1"] = 1
  /\ balances[Market] = 1
  /\ balances["b1"] = InitialFunds - 3
====
